---- MODULE Spec2Model ----
(***************************************************************************)
(* homebridge-indigo: the accessory state synchronisation engine.          *)
(* The model follows src/unnamed/part_000 (the current version of the      *)
(* plugin): the serialised request queue, the per-accessory property       *)
(* cache (updateFromJSON / getStatus / updateStatus / refresh), the set    *)
(* and get handlers of every accessory class and the push listener         *)
(* (updateAccessory).                                                      *)
(*                                                                         *)
(* JavaScript values are pairs <<type, n>>; strings are numbered by the    *)
(* table Strings.  Temperatures are integers in tenths of a degree.        *)
(***************************************************************************)
EXTENDS Integers, Sequences, FiniteSets, TLC

VARIABLES
    remote,         \* the Indigo server: device number -> its JSON document
    accessories,    \* the IndigoAccessory objects, in creation order
    accessoryMap,   \* IndigoPlatform.accessoryMap: String(id) -> index in accessories
    calls,          \* every call of indigoRequest so far, in call order
    requestQueue,   \* tasks waiting in the async queue (indices in calls)
    workers,        \* tasks handed to the queue's worker: requests in flight
    issued,         \* the order in which requests were started
    ops,            \* the operations invoked so far, with the answers they got
    timers,         \* pending setTimeout callbacks, in scheduling order
    changes,        \* number of changes made on the server from outside
    last,           \* what the last step did
    discovery       \* the discovery pass: its configuration, progress and result

vars == <<remote, accessories, accessoryMap, calls, requestQueue, workers,
          issued, ops, timers, changes, last, discovery>>

-----------------------------------------------------------------------------
(* Bounds of the model *)

MaxOps == 2
MaxChanges == 1

-----------------------------------------------------------------------------
(* JavaScript values *)

Strings == <<"devices", "actions", "Lamp", "Desk", "true">>
StrIndex(s) == CHOOSE i \in 1..Len(Strings) : Strings[i] = s

Undefined == <<"undefined", 0>>
\* the result of arithmetic on a value that is not a number
NaN == <<"NaN", 0>>
JSBool(b) == <<"boolean", IF b THEN 1 ELSE 0>>
JSNum(n) == <<"number", n>>
JSStr(s) == <<"string", StrIndex(s)>>
StringOf(v) == Strings[v[2]]

\* truthiness, as in  if (x)  and  (x) ? a : b
ToBoolean(v) ==
    CASE v[1] = "undefined" -> FALSE
      [] v[1] = "string" -> TRUE       \* no string of the table is empty
      [] v[1] = "NaN" -> FALSE
      [] OTHER -> v[2] # 0

\* x != y : booleans and numbers compare as numbers, undefined equals only
\* undefined, and no string of the table converts to a number
LooseNotEqual(x, y) ==
    IF x[1] = y[1] THEN x # y
    ELSE IF x[1] \in {"boolean", "number"} /\ y[1] \in {"boolean", "number"}
         THEN x[2] # y[2]
         ELSE TRUE

Get(f, k) == IF k \in DOMAIN f THEN f[k] ELSE Undefined

Range(s) == {s[i] : i \in 1..Len(s)}

-----------------------------------------------------------------------------
(* Configuration (config.json) and the devices of the Indigo server *)

accessoryNamePrefix == "T-"
thermostatsInCelsius == FALSE
treatAsSwitchIds == {"1", "12", "14"}
treatAsLockIds == {"2", "14"}
treatAsDoorIds == {"3"}
treatAsGarageDoorIds == {"4"}
treatAsWindowIds == {"5"}
treatAsWindowCoveringIds == {"6"}

\* IndigoAccessory.REFRESH_CONTEXT, and the context of a write by a controller
REFRESH_CONTEXT == "refresh"
HAP_CONTEXT == "controller"
Contexts == {REFRESH_CONTEXT, HAP_CONTEXT}

\* Characteristic constants of the accessory framework
SECURED == 1
UNSECURED == 0
DOOR_OPEN == 0
DOOR_CLOSED == 1
HC_OFF == 0
HC_HEAT == 1
HC_COOL == 2
HC_AUTO == 3

\* the order in which a response lists its keys (Indigo lists them sorted)
PropOrder == <<"brightness", "displayHumidityInRemoteUI", "hvacCoolerIsOn",
               "hvacHeaterIsOn", "hvacOperationModeIsAuto", "hvacOperationModeIsCool",
               "hvacOperationModeIsHeat", "hvacOperationModeIsProgramAuto",
               "hvacOperationModeIsProgramCool", "hvacOperationModeIsProgramHeat",
               "id", "inputHumidityVals",
               "inputTemperatureVals", "isOn", "name", "restParent",
               "setpointCool", "setpointHeat", "speedIndex",
               "typeSupportsDim", "typeSupportsHVAC", "typeSupportsOnOff",
               "typeSupportsSpeedControl">>
PropNames == Range(PropOrder)

OnOffDevice(n) ==
    ("id" :> JSNum(n)) @@ ("name" :> JSStr("Lamp")) @@ ("restParent" :> JSStr("devices"))
    @@ ("typeSupportsOnOff" :> JSBool(TRUE)) @@ ("isOn" :> JSBool(FALSE))

\* the detail document of each device when it is discovered
DeviceDetail(d) ==
    CASE d \in {1, 2, 3, 4, 6} -> OnOffDevice(d)
      [] d \in {5, 9} -> OnOffDevice(d) @@ ("typeSupportsDim" :> JSBool(TRUE))
                           @@ ("brightness" :> JSNum(0))
      [] d = 7 -> ("id" :> JSNum(7)) @@ ("name" :> JSStr("Lamp"))
                    @@ ("restParent" :> JSStr("devices"))
                    @@ ("typeSupportsHVAC" :> JSBool(TRUE))
                    @@ ("hvacOperationModeIsHeat" :> JSBool(FALSE))
                    @@ ("hvacOperationModeIsCool" :> JSBool(FALSE))
                    @@ ("hvacOperationModeIsAuto" :> JSBool(TRUE))
                    @@ ("hvacOperationModeIsProgramHeat" :> JSBool(FALSE))
                    @@ ("hvacOperationModeIsProgramCool" :> JSBool(FALSE))
                    @@ ("hvacOperationModeIsProgramAuto" :> JSBool(FALSE))
                    @@ ("setpointHeat" :> JSNum(680)) @@ ("setpointCool" :> JSNum(760))
                    @@ ("hvacHeaterIsOn" :> JSBool(FALSE))
                    @@ ("hvacCoolerIsOn" :> JSBool(TRUE))
                    @@ ("inputTemperatureVals" :> JSNum(770))
                    @@ ("inputHumidityVals" :> JSNum(40))
                    @@ ("displayHumidityInRemoteUI" :> JSBool(TRUE))
      [] d = 8 -> OnOffDevice(8) @@ ("typeSupportsSpeedControl" :> JSBool(TRUE))
                    @@ ("speedIndex" :> JSNum(0))
      [] d = 10 -> ("id" :> JSNum(10)) @@ ("name" :> JSStr("Lamp"))
                     @@ ("restParent" :> JSStr("actions"))

Devices == 1..10

\* String(json.id)
IdString(v) == ToString(v[2])

-----------------------------------------------------------------------------
(* Discovery: which devices become accessories, and of which class *)

\* IndigoPlatform.prototype.includeItemId, for an include list inc (used when
\* hasInclude) and an exclude list exc (used when hasExclude)
\* (and first, the same with the include list deciding when it has the id)
includeItemIdIncludeFirst(id, hasInclude, inc, hasExclude, exc) ==
    IF hasInclude THEN IdString(id) \in inc
    ELSE IF hasExclude /\ IdString(id) \in exc THEN FALSE
    ELSE TRUE
includeItemId(id, hasInclude, inc, hasExclude, exc) ==
    IF hasInclude /\ IdString(id) \notin inc THEN FALSE
    ELSE IF hasExclude /\ IdString(id) \in exc THEN FALSE
    ELSE TRUE

\* IndigoPlatform.prototype.createAccessoryFromJSON: the class of the
\* accessory, or "null"
\* (and first, the same with overrides that do not ask for on/off support)
createAccessoryFromJSONAnyOverride(json) ==
    LET id == IdString(Get(json, "id"))
    IN  IF Get(json, "restParent") = JSStr("actions") THEN "Action"
        ELSE IF id \in treatAsSwitchIds THEN "Switch"
        ELSE IF id \in treatAsLockIds THEN "Lock"
        ELSE IF id \in treatAsDoorIds THEN "Door"
        ELSE IF id \in treatAsGarageDoorIds THEN "GarageDoor"
        ELSE IF id \in treatAsWindowIds THEN "Window"
        ELSE IF id \in treatAsWindowCoveringIds THEN "WindowCovering"
        ELSE IF ToBoolean(Get(json, "typeSupportsHVAC")) THEN "Thermostat"
        ELSE IF ToBoolean(Get(json, "typeSupportsSpeedControl")) THEN "Fan"
        ELSE IF ToBoolean(Get(json, "typeSupportsDim"))
                \/ ToBoolean(Get(json, "typeSupportsOnOff")) THEN "Light"
        ELSE "null"
createAccessoryFromJSON(json) ==
    LET onOff == ToBoolean(Get(json, "typeSupportsOnOff"))
        id == IdString(Get(json, "id"))
    IN  IF Get(json, "restParent") = JSStr("actions") THEN "Action"
        ELSE IF onOff /\ id \in treatAsSwitchIds THEN "Switch"
        ELSE IF onOff /\ id \in treatAsLockIds THEN "Lock"
        ELSE IF onOff /\ id \in treatAsDoorIds THEN "Door"
        ELSE IF onOff /\ id \in treatAsGarageDoorIds THEN "GarageDoor"
        ELSE IF onOff /\ id \in treatAsWindowIds THEN "Window"
        ELSE IF onOff /\ id \in treatAsWindowCoveringIds THEN "WindowCovering"
        ELSE IF ToBoolean(Get(json, "typeSupportsHVAC")) THEN "Thermostat"
        ELSE IF ToBoolean(Get(json, "typeSupportsSpeedControl")) THEN "Fan"
        ELSE IF ToBoolean(Get(json, "typeSupportsDim")) \/ onOff THEN "Light"
        ELSE "null"

IsPosition(variant) == variant \in {"Door", "Window", "WindowCovering"}

\* the characteristics on which the constructor of each class registers a
\* 'set' listener; a light registers Brightness only if it supports dimming
SetListeners(variant, json) ==
    CASE variant \in {"Switch", "Action"} -> {"On"}
      [] variant = "Lock" -> {"LockTargetState"}
      [] IsPosition(variant) -> {"TargetPosition"}
      [] variant = "GarageDoor" -> {"TargetDoorState"}
      [] variant = "Light" ->
            IF ToBoolean(Get(json, "typeSupportsDim")) THEN {"On", "Brightness"}
            ELSE {"On"}
      [] variant = "Fan" -> {"On", "RotationSpeed"}
      [] variant = "Thermostat" ->
            {"TargetHeatingCoolingState", "TargetTemperature",
             "CoolingThresholdTemperature", "HeatingThresholdTemperature"}
      [] OTHER -> {}

\* the characteristics on which the constructor of each class registers a
\* 'get' listener; a light registers Brightness only if it supports dimming
\* and a thermostat CurrentRelativeHumidity only if it displays humidity
GetListeners(variant, json) ==
    CASE variant \in {"Switch", "Action"} -> {"On"}
      [] variant = "Lock" -> {"LockCurrentState", "LockTargetState"}
      [] IsPosition(variant) -> {"CurrentPosition", "PositionState", "TargetPosition"}
      [] variant = "GarageDoor" ->
            {"CurrentDoorState", "TargetDoorState", "ObstructionDetected"}
      [] variant = "Light" ->
            IF ToBoolean(Get(json, "typeSupportsDim")) THEN {"On", "Brightness"}
            ELSE {"On"}
      [] variant = "Fan" -> {"On", "RotationSpeed"}
      [] variant = "Thermostat" ->
            {"CurrentHeatingCoolingState", "TargetHeatingCoolingState",
             "CurrentTemperature", "TargetTemperature",
             "CoolingThresholdTemperature", "HeatingThresholdTemperature"}
            \cup (IF ToBoolean(Get(json, "displayHumidityInRemoteUI"))
                  THEN {"CurrentRelativeHumidity"} ELSE {})
      [] OTHER -> {}

\* the characteristics whose value the plugin or a controller reads or writes
Characteristics(variant) ==
    CASE variant \in {"Switch", "Action"} -> {"On"}
      [] variant = "Lock" -> {"LockCurrentState", "LockTargetState"}
      [] IsPosition(variant) -> {"CurrentPosition", "PositionState", "TargetPosition"}
      [] variant = "GarageDoor" ->
            {"CurrentDoorState", "TargetDoorState", "ObstructionDetected"}
      [] variant = "Light" -> {"On", "Brightness"}
      [] variant = "Fan" -> {"On", "RotationSpeed"}
      [] variant = "Thermostat" ->
            {"CurrentHeatingCoolingState", "TargetHeatingCoolingState",
             "CurrentTemperature", "TargetTemperature",
             "CoolingThresholdTemperature", "HeatingThresholdTemperature",
             "CurrentRelativeHumidity"}
      [] OTHER -> {}

InitialValue(char) == IF char = "On" THEN JSBool(FALSE) ELSE JSNum(0)

-----------------------------------------------------------------------------
(* What a handler does: the requests it hands to indigoRequest, the        *)
(* callbacks it invokes before returning and the timers it schedules       *)

NoQs == <<>>
Req(method, qs, k) == [method |-> method, qs |-> qs, k |-> k]
Eff(reqs, cb, tm) == [reqs |-> reqs, cb |-> cb, timers |-> tm]
Callback(e) == Eff(<<>>, <<e>>, <<>>)
\* a deferred setValue(value) on a characteristic
\* (and first, one that hands over true whatever the value)
TimerStuckOn(char, value) == [char |-> char, value |-> JSBool(TRUE)]
Timer(char, value) == [char |-> char, value |-> value]

\* IndigoAccessory.prototype.getStatus: one GET of the device's resource;
\* k names what the callback given to getStatus does
getStatus(k) == Eff(<<Req("GET", NoQs, k)>>, <<>>, <<>>)

\* IndigoAccessory.prototype.updateStatus: one PUT; its callback fetches the
\* status when the PUT succeeded
updateStatus(qs) == Eff(<<Req("PUT", qs, "updateStatus")>>, <<>>, <<>>)

\* setOnState as it was before the context parameter (src/index.js)
setOnStateNoContext(this, onState, context) ==
    IF ToBoolean(this.props["typeSupportsOnOff"])
    THEN updateStatus("isOn" :> JSNum(IF ToBoolean(onState) THEN 1 ELSE 0))
    ELSE Callback("err")

\* IndigoAccessory.prototype.setOnState
setOnState(this, onState, context) ==
    IF context = REFRESH_CONTEXT THEN Callback("ok")
    ELSE IF ToBoolean(this.props["typeSupportsOnOff"])
    THEN updateStatus("isOn" :> JSNum(IF ToBoolean(onState) THEN 1 ELSE 0))
    ELSE Callback("err")

\* IndigoLockAccessory.prototype.setLockTargetState
setLockTargetState(this, lockState, context) ==
    LET secured == ~LooseNotEqual(lockState, JSNum(SECURED)) IN
    IF context = REFRESH_CONTEXT THEN Callback("ok")
    ELSE IF ToBoolean(this.props["typeSupportsOnOff"])
    THEN Eff(updateStatus("isOn" :> JSNum(IF secured THEN 1 ELSE 0)).reqs, <<>>,
             <<Timer("LockCurrentState",
                     JSNum(IF secured THEN SECURED ELSE UNSECURED))>>)
    ELSE Callback("err")

\* IndigoPositionAccessory.prototype.setTargetPosition
setTargetPosition(this, position, context) ==
    IF context = REFRESH_CONTEXT THEN Callback("ok")
    ELSE IF ToBoolean(this.props["typeSupportsOnOff"])
            \/ ToBoolean(this.props["typeSupportsDim"])
    THEN Eff((IF ToBoolean(this.props["typeSupportsDim"])
              THEN updateStatus("brightness" :> position)
              ELSE updateStatus("isOn" :> JSNum(IF position[2] > 0 THEN 1 ELSE 0))).reqs,
             <<>>, <<Timer("CurrentPosition", position)>>)
    ELSE Callback("err")

\* IndigoGarageDoorAccessory.prototype.setTargetDoorState
setTargetDoorState(this, doorState, context) ==
    LET open == ~LooseNotEqual(doorState, JSNum(DOOR_OPEN)) IN
    IF context = REFRESH_CONTEXT THEN Callback("ok")
    ELSE IF ToBoolean(this.props["typeSupportsOnOff"])
    THEN Eff(updateStatus("isOn" :> JSNum(IF open THEN 1 ELSE 0)).reqs, <<>>,
             <<Timer("CurrentDoorState",
                     JSNum(IF open THEN DOOR_OPEN ELSE DOOR_CLOSED))>>)
    ELSE Callback("err")

\* IndigoLightAccessory.prototype.setBrightness
\* (and first, the same without the test of the range)
setBrightnessAnyValue(this, brightness, context) ==
    IF context = REFRESH_CONTEXT THEN Callback("ok")
    ELSE IF ToBoolean(this.props["typeSupportsDim"])
    THEN updateStatus("brightness" :> brightness)
    ELSE Callback("err")
setBrightness(this, brightness, context) ==
    IF context = REFRESH_CONTEXT THEN Callback("ok")
    ELSE IF ToBoolean(this.props["typeSupportsDim"])
            /\ brightness[2] >= 0 /\ brightness[2] <= 100
    THEN updateStatus("brightness" :> brightness)
    ELSE Callback("err")

\* a rotation speed is counted in thirtieths of a percent, the unit in which
\* speedIndex / 3.0 * 100.0 and the limits 33.3 and 66.6 are whole numbers
SpeedUnit == 30

\* IndigoFanAccessory.prototype.setRotationSpeed; the handler takes no context
\* (and first, the same with the limits at one third and two thirds)
setRotationSpeedThirds(this, rotationSpeed, context) ==
    IF ToBoolean(this.props["typeSupportsSpeedControl"])
       /\ rotationSpeed[2] >= 0 /\ rotationSpeed[2] <= 100 * SpeedUnit
    THEN updateStatus("speedIndex" :>
            JSNum(IF rotationSpeed[2] > 2000 THEN 3
                  ELSE IF rotationSpeed[2] > 1000 THEN 2
                  ELSE IF rotationSpeed[2] > 0 THEN 1 ELSE 0))
    ELSE Callback("err")
setRotationSpeed(this, rotationSpeed, context) ==
    IF ToBoolean(this.props["typeSupportsSpeedControl"])
       /\ rotationSpeed[2] >= 0 /\ rotationSpeed[2] <= 100 * SpeedUnit
    THEN updateStatus("speedIndex" :>
            JSNum(IF rotationSpeed[2] > 1998 THEN 3
                  ELSE IF rotationSpeed[2] > 999 THEN 2
                  ELSE IF rotationSpeed[2] > 0 THEN 1 ELSE 0))
    ELSE Callback("err")

\* IndigoThermostatAccessory.prototype.setTargetHeatingCooling; the handler
\* takes no context
\* (and first, the same taking any other value for AUTO)
setTargetHeatingCoolingLenient(this, mode, context) ==
    CASE mode[2] = HC_OFF -> updateStatus("hvacOperationModeIsOff" :> JSStr("true"))
      [] mode[2] = HC_HEAT -> updateStatus("hvacOperationModeIsHeat" :> JSStr("true"))
      [] mode[2] = HC_COOL -> updateStatus("hvacOperationModeIsCool" :> JSStr("true"))
      [] OTHER -> updateStatus("hvacOperationModeIsAuto" :> JSStr("true"))
setTargetHeatingCooling(this, mode, context) ==
    CASE mode[2] = HC_OFF -> updateStatus("hvacOperationModeIsOff" :> JSStr("true"))
      [] mode[2] = HC_HEAT -> updateStatus("hvacOperationModeIsHeat" :> JSStr("true"))
      [] mode[2] = HC_COOL -> updateStatus("hvacOperationModeIsCool" :> JSStr("true"))
      [] mode[2] = HC_AUTO -> updateStatus("hvacOperationModeIsAuto" :> JSStr("true"))
      [] OTHER -> Callback("err")

\* Math.round(x * 10) / 10 for x = n / d, in tenths: floor(10 n / d + 1/2)
RoundTenths(n, d) == (20 * n + d) \div (2 * d)

\* IndigoThermostatAccessory.prototype.celsiusToIndigoTemp, in tenths
\* (and first, the same cutting the Fahrenheit value to a whole degree)
celsiusToIndigoTempWhole(this, t) ==
    IF this.thermostatsInCelsius THEN t ELSE 10 * ((t * 9 + 1600) \div 500)
celsiusToIndigoTemp(this, t) ==
    IF this.thermostatsInCelsius THEN t ELSE RoundTenths(t * 9 + 1600, 50)

\* IndigoThermostatAccessory.prototype.indigoTempToCelsius, in tenths
indigoTempToCelsius(this, t) ==
    IF this.thermostatsInCelsius THEN t ELSE RoundTenths((t - 320) * 5, 90)

\* IndigoThermostatAccessory.prototype.setTemperatureValue
setTemperatureValue(this, key, temperature, context) ==
    updateStatus(key :> JSNum(celsiusToIndigoTemp(this, temperature[2])))

\* IndigoThermostatAccessory.prototype.setTargetTemperature: first a status
\* fetch, whose callback writes the setpoints
\* (and first, the same writing the heat setpoint without the fetch)
setTargetTemperatureUnfetched(this, temperature, context) ==
    updateStatus("setpointHeat" :> JSNum(celsiusToIndigoTemp(this, temperature[2])))
setTargetTemperature(this, temperature, context) ==
    getStatus("setTargetTemperature")

\* the callback of that fetch when it succeeded
\* (and first, the same writing both setpoints whatever the mode)
setTargetTemperatureWriteBoth(this, temperature) ==
    LET t == celsiusToIndigoTemp(this, temperature[2])
        adjust == IF this.thermostatsInCelsius THEN 20 ELSE 50
    IN  updateStatus(("setpointCool" :> JSNum(t + adjust))
                     @@ ("setpointHeat" :> JSNum(t - adjust)))
setTargetTemperatureWrite(this, temperature) ==
    LET t == celsiusToIndigoTemp(this, temperature[2])
        adjust == IF this.thermostatsInCelsius THEN 20 ELSE 50
    IN  IF ToBoolean(this.props["hvacOperationModeIsHeat"])
        THEN updateStatus("setpointHeat" :> JSNum(t))
        ELSE IF ToBoolean(this.props["hvacOperationModeIsCool"])
        THEN updateStatus("setpointCool" :> JSNum(t))
        ELSE updateStatus(("setpointCool" :> JSNum(t + adjust))
                          @@ ("setpointHeat" :> JSNum(t - adjust)))

\* IndigoActionAccessory.prototype.executeAction
\* (and first, the same without the test of the value)
executeActionAnyValue(this, value, context) ==
    IF context # REFRESH_CONTEXT
    THEN Eff(<<Req("EXECUTE", NoQs, "execute")>>, <<"ok">>,
             <<Timer("On", JSBool(FALSE))>>)
    ELSE Callback("ok")
executeAction(this, value, context) ==
    IF ToBoolean(value) /\ context # REFRESH_CONTEXT
    THEN Eff(<<Req("EXECUTE", NoQs, "execute")>>, <<"ok">>,
             <<Timer("On", JSBool(FALSE))>>)
    ELSE Callback("ok")

\* the 'set' listener each class registers on a characteristic
SetHandler(this, char, value, context) ==
    CASE this.variant = "Action" -> executeAction(this, value, context)
      [] char = "On" -> setOnState(this, value, context)
      [] char = "LockTargetState" -> setLockTargetState(this, value, context)
      [] char = "TargetPosition" -> setTargetPosition(this, value, context)
      [] char = "TargetDoorState" -> setTargetDoorState(this, value, context)
      [] char = "Brightness" -> setBrightness(this, value, context)
      [] char = "RotationSpeed" -> setRotationSpeed(this, value, context)
      [] char = "TargetHeatingCoolingState" ->
            setTargetHeatingCooling(this, value, context)
      [] char = "TargetTemperature" -> setTargetTemperature(this, value, context)
      [] char = "CoolingThresholdTemperature" ->
            setTemperatureValue(this, "setpointCool", value, context)
      [] char = "HeatingThresholdTemperature" ->
            setTemperatureValue(this, "setpointHeat", value, context)

-----------------------------------------------------------------------------
(* The accessory framework as the plugin uses it, and the property cache   *)

\* what one handler run has done so far: the accessory object, the calls of
\* updateCallback, the update_<prop> functions run, the values handed to
\* Characteristic.setValue, the requests, timers and callbacks
Start(obj) ==
    [obj |-> obj, invoked |-> <<>>, mirrored |-> <<>>, delivered |-> <<>>,
     reqs |-> <<>>, timers |-> <<>>, cb |-> <<>>]

\* Characteristic.setValue(value, undefined, context): the 'set' listener, if
\* one is registered, is run with the context and the value is stored when it
\* calls back without an error; without a listener the value is stored
setValue(st, char, value, context) ==
    LET d == [char |-> char, value |-> value, context |-> context]
        eff == IF char \in st.obj.setListeners
               THEN SetHandler(st.obj, char, value, context)
               ELSE Callback("ok")
    IN  [st EXCEPT !.delivered = Append(@, d),
                   !.reqs = @ \o eff.reqs,
                   !.timers = @ \o eff.timers,
                   !.cb = @ \o eff.cb,
                   !.obj.hk[char] = IF eff.cb = <<"ok">> THEN value ELSE @]

\* the classes that define update_isOn and update_brightness
HasUpdateFunction(variant, prop) ==
    \/ prop = "isOn" /\ (variant \in {"Switch", "Lock", "GarageDoor", "Light"}
                         \/ IsPosition(variant))
    \/ prop = "brightness" /\ (variant = "Light" \/ IsPosition(variant))

\* the setValue calls of update_isOn / update_brightness of each class
UpdateFunction(this, prop, value) ==
    LET on == ToBoolean(value) IN
    CASE prop = "isOn" /\ this.variant \in {"Switch", "Light"} ->
            <<Timer("On", JSBool(on))>>
      [] prop = "isOn" /\ this.variant = "Lock" ->
            <<Timer("LockCurrentState", JSNum(IF on THEN SECURED ELSE UNSECURED)),
              Timer("LockTargetState", JSNum(IF on THEN SECURED ELSE UNSECURED))>>
      [] prop = "isOn" /\ IsPosition(this.variant) ->
            IF ~ToBoolean(this.props["typeSupportsDim"])
            THEN <<Timer("CurrentPosition", JSNum(IF on THEN 100 ELSE 0)),
                   Timer("TargetPosition", JSNum(IF on THEN 100 ELSE 0))>>
            ELSE <<>>
      [] prop = "isOn" /\ this.variant = "GarageDoor" ->
            <<Timer("CurrentDoorState", JSNum(IF on THEN DOOR_OPEN ELSE DOOR_CLOSED)),
              Timer("TargetDoorState", JSNum(IF on THEN DOOR_OPEN ELSE DOOR_CLOSED))>>
      [] prop = "brightness" /\ this.variant = "Light" ->
            <<Timer("Brightness", value)>>
      [] prop = "brightness" /\ IsPosition(this.variant) ->
            <<Timer("CurrentPosition", value), Timer("TargetPosition", value)>>
      [] OTHER -> <<>>

RECURSIVE setValues(_, _, _)
setValues(st, writes, context) ==
    IF writes = <<>> THEN st
    ELSE setValues(setValue(st, Head(writes).char, Head(writes).value, context),
                   Tail(writes), context)

\* the updateCallback that refresh hands to getStatus
refreshCallback(st, prop, value) ==
    LET st1 == [st EXCEPT !.invoked = Append(@, <<prop, value>>)] IN
    IF HasUpdateFunction(st.obj.variant, prop)
    THEN setValues([st1 EXCEPT !.mirrored = Append(@, <<prop, value>>)],
                   UpdateFunction(st1.obj, prop, value), REFRESH_CONTEXT)
    ELSE st1

\* one round of the loop of updateFromJSON
\* (the same with the callback outside the comparison)
updateStepAlways(st, json, prop, updateCallback) ==
    IF prop = "name" THEN st
    ELSE LET st1 == [st EXCEPT !.obj.props[prop] = json[prop]] IN
         IF updateCallback THEN refreshCallback(st1, prop, json[prop]) ELSE st1
updateStep(st, json, prop, updateCallback) ==
    IF prop # "name" /\ LooseNotEqual(json[prop], st.obj.props[prop])
    THEN LET st1 == [st EXCEPT !.obj.props[prop] = json[prop]] IN
         IF updateCallback THEN refreshCallback(st1, prop, json[prop]) ELSE st1
    ELSE st

RECURSIVE updateLoop(_, _, _, _)
updateLoop(st, json, i, updateCallback) ==
    IF i > Len(PropOrder) THEN st
    ELSE updateLoop(IF PropOrder[i] \in DOMAIN json
                    THEN updateStep(st, json, PropOrder[i], updateCallback)
                    ELSE st,
                    json, i + 1, updateCallback)

\* IndigoAccessory.prototype.updateFromJSON (and first, the same replacing
\* the cache as a whole: keys missing from json are dropped)
updateFromJSONAll(st, json, updateCallback) ==
    LET cleared == [st EXCEPT !.obj.props =
                        [p \in PropNames |-> IF p \in DOMAIN json \/ p = "name"
                                             THEN @[p] ELSE Undefined]]
        st1 == updateLoop(cleared, json, 1, updateCallback)
    IN  IF "name" \in DOMAIN json
        THEN [st1 EXCEPT !.obj.name = accessoryNamePrefix \o StringOf(json["name"])]
        ELSE st1
updateFromJSON(st, json, updateCallback) ==
    LET st1 == updateLoop(st, json, 1, updateCallback) IN
    IF "name" \in DOMAIN json
    THEN [st1 EXCEPT !.obj.name = accessoryNamePrefix \o StringOf(json["name"])]
    ELSE st1

\* the constructor of IndigoAccessory and of its subclass variant
IndigoAccessory(variant, deviceURL, json) ==
    updateFromJSON(
        Start([variant |-> variant, deviceURL |-> deviceURL,
               thermostatsInCelsius |-> thermostatsInCelsius,
               props |-> [p \in PropNames |-> Undefined], name |-> "",
               hk |-> [c \in Characteristics(variant) |-> InitialValue(c)],
               setListeners |-> SetListeners(variant, json),
               getListeners |-> GetListeners(variant, json)]),
        json, FALSE).obj

\* IndigoPlatform.prototype.indigoRequestJSON: the error and the parsed body
\* handed to the callback; outcome "garbage" is a body that does not parse
\* (and first, the same without the catch of the parse error)
indigoRequestJSONLenient(outcome, body) ==
    IF outcome = "error" THEN [error |-> TRUE, json |-> <<>>]
    ELSE [error |-> FALSE, json |-> body]
indigoRequestJSON(outcome, body) ==
    IF outcome = "error" THEN [error |-> TRUE, json |-> <<>>]
    ELSE IF outcome = "garbage" THEN [error |-> TRUE, json |-> <<>>]
    ELSE [error |-> FALSE, json |-> body]

-----------------------------------------------------------------------------
(* Get handlers *)

STOPPED == 2

\* the get handlers: getOnState, getLockCurrentState, getLockTargetState,
\* getPosition, getCurrentDoorState and getTargetDoorState fetch the status
\* if the device supports on/off (or dimming, for a position) and otherwise
\* do nothing at all; getBrightness, getRotationSpeed and
\* getCurrentRelativeHumidity fetch it through query() or call back with an
\* error; the thermostat's other gets always fetch it; getActionState,
\* getPositionState and getObstructionDetected answer without a request
GetHandler(this, char) ==
    LET onOff == ToBoolean(this.props["typeSupportsOnOff"])
        dim == ToBoolean(this.props["typeSupportsDim"])
        nothing == Eff(<<>>, <<>>, <<>>)
    IN
    CASE this.variant = "Action" -> Callback("ok")
      [] char \in {"On", "LockCurrentState", "LockTargetState",
                   "CurrentDoorState", "TargetDoorState"} ->
            IF onOff THEN getStatus("get") ELSE nothing
      [] char \in {"CurrentPosition", "TargetPosition"} ->
            IF onOff \/ dim THEN getStatus("get") ELSE nothing
      [] char \in {"PositionState", "ObstructionDetected"} ->
            IF onOff THEN Callback("ok") ELSE nothing
      [] char = "Brightness" ->
            IF dim THEN getStatus("get") ELSE Callback("err")
      [] char = "RotationSpeed" ->
            IF ToBoolean(this.props["typeSupportsSpeedControl"])
            THEN getStatus("get") ELSE Callback("err")
      [] char = "CurrentRelativeHumidity" ->
            IF ToBoolean(this.props["displayHumidityInRemoteUI"])
            THEN getStatus("get") ELSE Callback("err")
      [] OTHER -> getStatus("get")

\* the arithmetic of a get, on a property that may not be a number:
\* indigoTempToCelsius(temperature) and (speedIndex / 3.0) * 100.0
\* (and first, a temperature handed over in the server's unit)
TempOfNative(this, v) == v
TempOf(this, v) ==
    IF v[1] = "number" THEN JSNum(indigoTempToCelsius(this, v[2])) ELSE NaN
SpeedOfQuarters(v) ==
    IF v[1] = "number" THEN JSNum((v[2] * 100 * SpeedUnit) \div 4) ELSE NaN
SpeedOf(v) == IF v[1] = "number" THEN JSNum((v[2] * 100 * SpeedUnit) \div 3) ELSE NaN

\* the value a get hands to its callback, computed from the accessory's
\* properties
GetProject(this, char) ==
    LET p(k) == Get(this.props, k)
        on == ToBoolean(p("isOn"))
        heat == ToBoolean(p("hvacOperationModeIsHeat"))
                   \/ ToBoolean(p("hvacOperationModeIsProgramHeat"))
        cool == ToBoolean(p("hvacOperationModeIsCool"))
                   \/ ToBoolean(p("hvacOperationModeIsProgramCool"))
        auto == ToBoolean(p("hvacOperationModeIsAuto"))
                   \/ ToBoolean(p("hvacOperationModeIsProgramAuto"))
        \* indigoTempToCelsius((setpointHeat + setpointCool) / 2.0)
        Mid(h, c) == IF this.thermostatsInCelsius THEN (h + c) \div 2
                     ELSE RoundTenths((h + c - 640) * 5, 180)
    IN
    CASE this.variant = "Action" -> JSBool(FALSE)
      [] char = "On" -> JSBool(on)
      [] char \in {"LockCurrentState", "LockTargetState"} ->
            JSNum(IF on THEN SECURED ELSE UNSECURED)
      [] char \in {"CurrentDoorState", "TargetDoorState"} ->
            JSNum(IF on THEN DOOR_OPEN ELSE DOOR_CLOSED)
      [] char \in {"CurrentPosition", "TargetPosition"} ->
            IF ToBoolean(p("typeSupportsDim")) THEN p("brightness")
            ELSE JSNum(IF on THEN 100 ELSE 0)
      [] char = "PositionState" -> JSNum(STOPPED)
      [] char = "ObstructionDetected" -> JSBool(FALSE)
      [] char = "Brightness" -> p("brightness")
      [] char = "RotationSpeed" -> SpeedOf(p("speedIndex"))
      [] char = "CurrentHeatingCoolingState" ->
            JSNum(IF ToBoolean(p("hvacHeaterIsOn")) THEN HC_HEAT
                  ELSE IF ToBoolean(p("hvacCoolerIsOn")) THEN HC_COOL ELSE HC_OFF)
      [] char = "TargetHeatingCoolingState" ->
            JSNum(IF heat THEN HC_HEAT ELSE IF cool THEN HC_COOL
                  ELSE IF auto THEN HC_AUTO ELSE HC_OFF)
      [] char = "CurrentTemperature" -> TempOf(this, p("inputTemperatureVals"))
      [] char = "CoolingThresholdTemperature" -> TempOf(this, p("setpointCool"))
      [] char = "HeatingThresholdTemperature" -> TempOf(this, p("setpointHeat"))
      [] char = "TargetTemperature" ->
            IF heat THEN TempOf(this, p("setpointHeat"))
            ELSE IF cool THEN TempOf(this, p("setpointCool"))
            ELSE IF p("setpointHeat")[1] = "number" /\ p("setpointCool")[1] = "number"
                 THEN JSNum(Mid(p("setpointHeat")[2], p("setpointCool")[2]))
                 ELSE NaN
      [] char = "CurrentRelativeHumidity" -> p("inputHumidityVals")

-----------------------------------------------------------------------------
(* The state machine *)

Result(err, value) == [err |-> err, value |-> value]
Results(cb, value) ==
    [j \in 1..Len(cb) |-> Result(cb[j] = "err", IF cb[j] = "err" THEN Undefined ELSE value)]

NoLast(kind) ==
    [kind |-> kind, acc |-> 0, call |-> 0, outcome |-> "", before |-> <<>>,
     json |-> <<>>, invoked |-> <<>>, mirrored |-> <<>>, delivered |-> <<>>,
     enq |-> 0]

\* the curated sets of device numbers a discovery pass can have kept
IncludeChoices == {{"1", "8"}, {"2", "9"}, {"3", "7"}, {"4", "10"}, {"5", "6"}}

RECURSIVE Discovered(_, _)
Discovered(d, inc) ==
    IF d > 10 THEN <<>>
    ELSE LET json == DeviceDetail(d)
             variant == createAccessoryFromJSON(json)
         IN  (IF includeItemId(json["id"], TRUE, inc, FALSE, {}) /\ variant # "null"
              THEN <<IndigoAccessory(variant, d, json)>> ELSE <<>>)
             \o Discovered(d + 1, inc)

\* the state when a discovery pass with include list inc has completed
Init ==
    \E inc \in IncludeChoices :
        /\ accessories = Discovered(1, inc)
        /\ accessoryMap =
              [id \in {IdString(accessories[i].props["id"]) : i \in 1..Len(accessories)}
                 |-> CHOOSE i \in 1..Len(accessories) :
                        IdString(accessories[i].props["id"]) = id]
        /\ remote = [d \in {accessories[i].deviceURL : i \in 1..Len(accessories)}
                       |-> DeviceDetail(d)]
        /\ calls = <<>>
        /\ requestQueue = <<>>
        /\ workers = {}
        /\ issued = <<>>
        /\ ops = <<>>
        /\ timers = <<>>
        /\ changes = 0
        /\ last = NoLast("init")
        /\ discovery = [phase |-> "done"]

\* IndigoPlatform.prototype.indigoRequest, for the requests of one handler
\* run: each is pushed at the end of the queue
\* (and first, the same without the push)
indigoRequestDropping(reqs, acc, op) ==
    /\ calls' = calls \o
          [j \in 1..Len(reqs) |->
              [method |-> reqs[j].method, acc |-> acc, dev |-> accessories[acc].deviceURL,
               qs |-> reqs[j].qs, k |-> reqs[j].k, op |-> op]]
    /\ requestQueue' = requestQueue
indigoRequest(reqs, acc, op) ==
    /\ calls' = calls \o
          [j \in 1..Len(reqs) |->
              [method |-> reqs[j].method, acc |-> acc, dev |-> accessories[acc].deviceURL,
               qs |-> reqs[j].qs, k |-> reqs[j].k, op |-> op]]
    /\ requestQueue' = requestQueue \o [j \in 1..Len(reqs) |-> Len(calls) + j]

\* what a handler run leaves behind
Commit(acc, st, op) ==
    /\ accessories' = [accessories EXCEPT ![acc] = st.obj]
    /\ indigoRequest(st.reqs, acc, op)
    /\ timers' = timers \o
          [j \in 1..Len(st.timers) |->
              [acc |-> acc, char |-> st.timers[j].char, value |-> st.timers[j].value,
               op |-> op]]

LastOf(kind, acc, call, outcome, before, json, st) ==
    [kind |-> kind, acc |-> acc, call |-> call, outcome |-> outcome,
     before |-> before, json |-> json, invoked |-> st.invoked,
     mirrored |-> st.mirrored, delivered |-> st.delivered, enq |-> Len(st.reqs)]

PushIds == {"1", "2", "3", "4", "5", "6", "7", "8", "9", "10", "99"}

\* IndigoPlatform.prototype.updateAccessory and IndigoAccessory.prototype.refresh
updateAccessory(id) ==
    /\ Len(ops) < MaxOps
    /\ IF id \in DOMAIN accessoryMap
       THEN LET acc == accessoryMap[id]
                st == [Start(accessories[acc]) EXCEPT !.reqs = getStatus("refresh").reqs]
            IN  /\ ops' = Append(ops, [kind |-> "push", acc |-> acc, key |-> id,
                                       value |-> Undefined, context |-> "", echoes |-> 0,
                                       results |-> <<>>])
                /\ Commit(acc, st, Len(ops) + 1)
                /\ last' = LastOf("push", acc, 0, "", <<>>, <<>>, st)
       ELSE /\ ops' = Append(ops, [kind |-> "push", acc |-> 0, key |-> id,
                                   value |-> Undefined, context |-> "", echoes |-> 0,
                                   results |-> <<Result(TRUE, JSNum(404))>>])
            /\ last' = NoLast("push")
            /\ UNCHANGED <<accessories, calls, requestQueue, timers>>
    /\ UNCHANGED <<remote, accessoryMap, workers, issued, changes>>
    /\ UNCHANGED discovery

\* the values a controller writes to a characteristic
SetValues(char) ==
    CASE char = "On" -> {JSBool(TRUE), JSBool(FALSE)}
      [] char \in {"LockTargetState", "TargetDoorState"} -> {JSNum(0), JSNum(1)}
      [] char = "TargetPosition" -> {JSNum(0), JSNum(50)}
      [] char = "Brightness" -> {JSNum(50), JSNum(101)}
      [] char = "RotationSpeed" -> {JSNum(50 * SpeedUnit), JSNum(100 * SpeedUnit + 1)}
      [] char = "TargetHeatingCoolingState" -> {JSNum(HC_HEAT), JSNum(4)}
      [] OTHER -> {JSNum(220)}

\* a write to a characteristic that has a 'set' listener
Set(acc, char, value, context) ==
    /\ Len(ops) < MaxOps
    /\ char \in accessories[acc].setListeners
    /\ LET st == setValue(Start(accessories[acc]), char, value, context) IN
        /\ ops' = Append(ops, [kind |-> "set", acc |-> acc, key |-> char,
                               value |-> value, context |-> context, echoes |-> 0,
                               results |-> Results(st.cb, Undefined)])
        /\ Commit(acc, st, Len(ops) + 1)
        /\ last' = LastOf("set", acc, 0, "", <<>>, <<>>, st)
    /\ UNCHANGED <<remote, accessoryMap, workers, issued, changes>>
    /\ UNCHANGED discovery

\* a read of a characteristic that has a 'get' listener
GetOp(acc, char) ==
    /\ Len(ops) < MaxOps
    /\ char \in accessories[acc].getListeners
    /\ LET eff == GetHandler(accessories[acc], char)
           st == [Start(accessories[acc]) EXCEPT !.reqs = eff.reqs]
       IN
        /\ ops' = Append(ops, [kind |-> "get", acc |-> acc, key |-> char,
                               value |-> Undefined, context |-> "", echoes |-> 0,
                               results |-> Results(eff.cb,
                                              GetProject(accessories[acc], char))])
        /\ Commit(acc, st, Len(ops) + 1)
        /\ last' = LastOf("get", acc, 0, "", <<>>, <<>>, st)
    /\ UNCHANGED <<remote, accessoryMap, workers, issued, changes>>
    /\ UNCHANGED discovery

\* the async queue: its concurrency (one worker unless async.queue is given
\* another number) and the task it hands to the worker next
ConcurrencyTwo == 2
Concurrency == 1

NextTaskLast(q) == Len(q)
NextTask(q) == 1

\* the queue starts the next request
Process ==
    /\ requestQueue # <<>>
    /\ Cardinality(workers) < Concurrency
    /\ LET n == NextTask(requestQueue) IN
        /\ workers' = workers \cup {requestQueue[n]}
        /\ issued' = Append(issued, requestQueue[n])
        /\ requestQueue' = [j \in 1..(Len(requestQueue) - 1) |->
                               IF j < n THEN requestQueue[j] ELSE requestQueue[j + 1]]
    /\ last' = NoLast("process")
    /\ UNCHANGED <<remote, accessories, accessoryMap, calls, ops, timers, changes>>
    /\ UNCHANGED discovery

\* the Indigo server applies the parameters of a PUT to the device: a flag
\* is stored as a boolean, a number as it is, and selecting an operating
\* mode clears the other modes
ModeKeys == {"hvacOperationModeIsHeat", "hvacOperationModeIsCool",
             "hvacOperationModeIsAuto", "hvacOperationModeIsOff",
             "hvacOperationModeIsProgramHeat", "hvacOperationModeIsProgramCool",
             "hvacOperationModeIsProgramAuto"}
ServerPut(doc, qs) ==
    [p \in DOMAIN doc |->
        IF p \in DOMAIN qs
        THEN IF doc[p][1] = "boolean" THEN JSBool(ToBoolean(qs[p])) ELSE qs[p]
        ELSE IF p \in ModeKeys /\ DOMAIN qs \cap ModeKeys # {} THEN JSBool(FALSE)
        ELSE doc[p]]

\* the status the push listener answers with after a refresh
sendStatusAlways200(error) == 200
sendStatus(error) == IF error THEN 500 ELSE 200

\* the callback getStatus hands to indigoRequestJSON
\* (and first, the same leaving the properties as they were)
getStatusCallbackStale(st, r, updateCallback) == st
getStatusCallback(st, r, updateCallback) ==
    IF r.error THEN st ELSE updateFromJSON(st, r.json, updateCallback)

\* the callback updateStatus hands to indigoRequest: the status is fetched
\* when the PUT succeeded
\* (and first, the same fetching the status after a failed PUT too)
updateStatusCallbackAlways(st, error) ==
    [st EXCEPT !.reqs = getStatus("afterPut").reqs]
updateStatusCallback(st, error) ==
    IF error THEN st ELSE [st EXCEPT !.reqs = getStatus("afterPut").reqs]

\* the callback of a completed request: r is what indigoRequest or
\* indigoRequestJSON hands to it, op the operation the request belongs to
Handler(call, r, obj, op) ==
    LET st == Start(obj)
        failed == IF op.kind = "push" THEN <<>> ELSE <<Result(TRUE, Undefined)>>
        done(v) == IF op.kind = "push" THEN <<>> ELSE <<Result(FALSE, v)>>
    IN
    CASE call.k = "refresh" ->
            [st |-> getStatusCallback(st, r, TRUE),
             results |-> <<Result(r.error, JSNum(sendStatus(r.error)))>>]
      [] call.k = "get" ->
            LET st1 == getStatusCallback(st, r, FALSE) IN
            [st |-> st1,
             results |-> IF r.error THEN failed ELSE done(GetProject(st1.obj, op.key))]
      [] call.k = "afterPut" ->
            [st |-> getStatusCallback(st, r, FALSE),
             results |-> IF r.error THEN failed ELSE done(Undefined)]
      [] call.k = "updateStatus" ->
            [st |-> updateStatusCallback(st, r.error),
             results |-> IF r.error THEN failed ELSE <<>>]
      [] call.k = "setTargetTemperature" ->
            LET st1 == getStatusCallback(st, r, FALSE) IN
            IF r.error THEN [st |-> st1, results |-> failed]
            ELSE [st |-> [st1 EXCEPT !.reqs =
                             setTargetTemperatureWrite(st1.obj, op.value).reqs],
                  results |-> <<>>]
      [] OTHER -> [st |-> st, results |-> <<>>]

Outcomes(method) ==
    IF method = "GET" THEN {"ok", "error", "garbage"} ELSE {"ok", "error"}

\* a request in flight completes and its callback runs
Respond(c, outcome) ==
    /\ c \in workers
    /\ outcome \in Outcomes(calls[c].method)
    /\ LET call == calls[c]
           op == ops[call.op]
           obj == accessories[call.acc]
           r == IF call.method = "GET" THEN indigoRequestJSON(outcome, remote[call.dev])
                ELSE [error |-> outcome = "error", json |-> <<>>]
           run == Handler(call, r, obj, op)
           \* the framework stores the value of a completed get or set
           stored == IF op.kind \in {"get", "set"} /\ run.results # <<>>
                        /\ ~run.results[1].err
                     THEN [run.st EXCEPT !.obj.hk[op.key] =
                              IF op.kind = "set" THEN op.value
                              ELSE run.results[1].value]
                     ELSE run.st
       IN
        /\ workers' = workers \ {c}
        /\ remote' = IF call.method = "PUT" /\ outcome = "ok"
                     THEN [remote EXCEPT ![call.dev] = ServerPut(@, call.qs)]
                     ELSE remote
        /\ ops' = [ops EXCEPT ![call.op].results = @ \o run.results]
        /\ Commit(call.acc, stored, call.op)
        /\ last' = LastOf("respond", call.acc, c, outcome, obj,
                          IF r.error THEN <<>> ELSE r.json, stored)
    /\ UNCHANGED <<accessoryMap, issued, changes>>
    /\ UNCHANGED discovery

\* the oldest pending timer fires: the deferred setValue
TimerFire ==
    /\ timers # <<>>
    /\ LET t == Head(timers)
           st == setValue(Start(accessories[t.acc]), t.char, t.value, REFRESH_CONTEXT)
       IN
        /\ accessories' = [accessories EXCEPT ![t.acc] = st.obj]
        /\ indigoRequest(st.reqs, t.acc, t.op)
        /\ timers' = Tail(timers) \o
              [j \in 1..Len(st.timers) |->
                  [acc |-> t.acc, char |-> st.timers[j].char,
                   value |-> st.timers[j].value, op |-> t.op]]
        /\ ops' = [ops EXCEPT ![t.op].echoes = @ + 1]
        /\ last' = LastOf("timer", t.acc, 0, "", <<>>, <<>>, st)
    /\ UNCHANGED <<remote, accessoryMap, workers, issued, changes>>
    /\ UNCHANGED discovery

\* changes made to a device outside the plugin: a key gets a new value, or
\* disappears from the document (Undefined).  The plugin sees the server
\* only through the response to a request for that device, so a change
\* made at another time is the same change made when such a request is in
\* flight.
ChangeSet ==
    {"isOn" :> JSBool(TRUE), "isOn" :> JSNum(0),
     "typeSupportsOnOff" :> JSBool(FALSE), "typeSupportsDim" :> JSBool(FALSE),
     ("brightness" :> JSNum(50)) @@ ("isOn" :> JSBool(TRUE)),
     "brightness" :> Undefined, "name" :> JSStr("Desk")}

ExternalChange(d, ch) ==
    /\ changes < MaxChanges
    /\ d \in {calls[c].dev : c \in workers}
    /\ DOMAIN ch \subseteq DOMAIN remote[d]
    /\ remote' = [remote EXCEPT ![d] =
                    [p \in {q \in DOMAIN @ : Get(ch, q) # Undefined \/ q \notin DOMAIN ch}
                       |-> IF p \in DOMAIN ch THEN ch[p] ELSE @[p]]]
    /\ remote' # remote
    /\ changes' = changes + 1
    /\ last' = NoLast("change")
    /\ UNCHANGED <<accessories, accessoryMap, calls, requestQueue, workers,
                   issued, ops, timers>>
    /\ UNCHANGED discovery

Chars == {"On", "LockTargetState", "TargetPosition", "TargetDoorState", "Brightness",
          "RotationSpeed", "TargetHeatingCoolingState", "TargetTemperature",
          "CoolingThresholdTemperature", "HeatingThresholdTemperature"}

GetChars == UNION {Characteristics(v) :
                      v \in {"Lock", "Door", "GarageDoor", "Light", "Fan", "Thermostat"}}

Next ==
    \/ \E id \in PushIds : updateAccessory(id)
    \/ \E acc \in 1..Len(accessories), char \in Chars, context \in Contexts :
          \E value \in SetValues(char) : Set(acc, char, value, context)
    \/ \E acc \in 1..Len(accessories), char \in GetChars : GetOp(acc, char)
    \/ Process
    \/ \E c \in workers, outcome \in {"ok", "error", "garbage"} : Respond(c, outcome)
    \/ TimerFire
    \/ \E d \in Devices, ch \in ChangeSet : ExternalChange(d, ch)

Spec == Init /\ [][Next]_vars

\* the installations that have an action among their accessories
ActionInit ==
    /\ Init
    /\ \E i \in 1..Len(accessories) : accessories[i].variant = "Action"

\* some request in flight completes
Responding ==
    \E c \in workers, outcome \in {"ok", "error", "garbage"} : Respond(c, outcome)

\* the queue hands a waiting request to its worker as soon as the worker is
\* free, and every request in flight completes
QueueSpec ==
    ActionInit /\ [][Next]_vars /\ WF_vars(Process) /\ WF_vars(Responding)

\* the event loop runs the callback of every timer that is due
LiveSpec == ActionInit /\ [][Next]_vars /\ WF_vars(TimerFire)

-----------------------------------------------------------------------------
(* The discovery pass: IndigoPlatform.prototype.accessories *)

MaxFailures == 1
MaxAccessories == 99

\* names in the order of the comparison a.name > b.name (by code unit)
NameOrder == <<"Desk", "Lamp", "actions", "devices", "true">>
NameRank(name) ==
    CHOOSE i \in 1..Len(NameOrder) : accessoryNamePrefix \o NameOrder[i] = name

\* the detail document of every item the server can list: the devices of
\* DeviceDetail, a sensor without capabilities (11), a thermostat listed in
\* treatAsSwitchIds (12), a dimmable fan (13), a device listed both in
\* treatAsSwitchIds and in treatAsLockIds (14), and plain on/off devices
ItemDetail(id) ==
    CASE id \in Devices -> DeviceDetail(id)
      [] id = 11 -> ("id" :> JSNum(11)) @@ ("name" :> JSStr("Desk"))
                      @@ ("restParent" :> JSStr("devices"))
      [] id = 12 -> [DeviceDetail(7) EXCEPT !["id"] = JSNum(12)]
      [] id = 13 -> [DeviceDetail(8) EXCEPT !["id"] = JSNum(13)]
                      @@ ("typeSupportsDim" :> JSBool(TRUE))
                      @@ ("brightness" :> JSNum(0))
      [] OTHER -> [OnOffDevice(id) EXCEPT
                      !["name"] = IF id % 2 = 0 THEN JSStr("Desk") ELSE JSStr("Lamp")]

SmallListing == <<1, 2, 3, 4, 5, 6, 7, 8, 9, 11, 12, 13, 14>>
BigListing(n) == [i \in 1..n |-> 14 + i]

Config(includeActions, hasInclude, includeIds, hasExclude, excludeIds) ==
    [includeActions |-> includeActions, hasInclude |-> hasInclude,
     includeIds |-> includeIds, hasExclude |-> hasExclude, excludeIds |-> excludeIds]

\* the installations a discovery pass is run on: what the server lists
\* under /devices.json/ and /actions.json/, and the configuration
Installations ==
    {[devices |-> SmallListing, actions |-> <<10>>, config |-> c] :
        c \in {Config(TRUE, FALSE, {}, FALSE, {}),
               Config(TRUE, TRUE, {"1", "8", "10", "14"}, FALSE, {}),
               Config(TRUE, FALSE, {}, TRUE, {"2", "10"}),
               Config(TRUE, TRUE, {"3", "10"}, TRUE, {"10"}),
               Config(FALSE, FALSE, {}, FALSE, {})}}
    \cup {[devices |-> BigListing(n), actions |-> <<>>,
           config |-> Config(FALSE, FALSE, {}, FALSE, {})] :
             n \in {MaxAccessories + 1, MaxAccessories + 2}}
    \cup {[devices |-> BigListing(MaxAccessories), actions |-> <<10>>,
           config |-> Config(TRUE, FALSE, {}, FALSE, {})]}
    \cup {[devices |-> <<>>, actions |-> <<10>>,
           config |-> Config(TRUE, FALSE, {}, FALSE, {})]}

\* the state after the constructor of IndigoPlatform
DiscoveryInit ==
    \E inst \in Installations :
        /\ discovery = [phase |-> "new", config |-> inst.config,
                        listings |-> [devices |-> inst.devices, actions |-> inst.actions],
                        urls |-> <<>>, items |-> <<>>, found |-> <<>>, map |-> <<>>,
                        warnings |-> 0, errors |-> 0, failures |-> 0,
                        returned |-> <<>>]
        /\ remote = [d \in Range(inst.devices) \cup Range(inst.actions) |-> ItemDetail(d)]
        /\ accessories = <<>>
        /\ accessoryMap = <<>>
        /\ calls = <<>>
        /\ requestQueue = <<>>
        /\ workers = {}
        /\ issued = <<>>
        /\ ops = <<>>
        /\ timers = <<>>
        /\ changes = 0
        /\ last = NoLast("init")

\* Array.prototype.sort with the comparison of names: non-decreasing names;
\* the order it leaves accessories of equal names in depends on the engine,
\* here either the order they had (stable) or the opposite
Reverse(q) == [i \in 1..Len(q) |-> q[Len(q) + 1 - i]]
RECURSIVE sortFrom(_, _, _)
sortFrom(found, stable, r) ==
    IF r > Len(NameOrder) THEN <<>>
    ELSE LET same == SelectSeq(found, LAMBDA a : NameRank(a.name) = r)
         IN  (IF stable THEN same ELSE Reverse(same)) \o sortFrom(found, stable, r + 1)
sortNone(found, stable) == found
sort(found, stable) == sortFrom(found, stable, 1)

\* the final callback of async.eachSeries in accessories(): the error is
\* logged, the list is cut to the first 99 with a warning, sorted and handed
\* to the caller, whose callback takes the list and no error
\* (and first, the same sorting the list before it is cut)
FinishSortFirst(d, asyncError, stable) ==
    LET cut == Len(d.found) > MaxAccessories
        sorted == sort(d.found, stable)
        found == IF cut THEN SubSeq(sorted, 1, MaxAccessories) ELSE sorted
    IN  [d EXCEPT !.phase = "done",
                  !.errors = IF asyncError THEN @ + 1 ELSE @,
                  !.warnings = IF cut THEN @ + 1 ELSE @,
                  !.found = found,
                  !.returned = <<Result(FALSE, found)>>,
                  !.urls = <<>>, !.items = <<>>]
Finish(d, asyncError, stable) ==
    LET cut == Len(d.found) > MaxAccessories
        found == IF cut THEN SubSeq(d.found, 1, MaxAccessories) ELSE d.found
    IN  [d EXCEPT !.phase = "done",
                  !.errors = IF asyncError THEN @ + 1 ELSE @,
                  !.warnings = IF cut THEN @ + 1 ELSE @,
                  !.found = sort(found, stable),
                  !.returned = <<Result(FALSE, sort(found, stable))>>,
                  !.urls = <<>>, !.items = <<>>]

\* async.eachSeries: the next item of the listing, then the next listing,
\* then the final callback; the request it makes, if any
\* (and first, the same taking the items of a listing from its end)
EachSeriesBackwards(d, stable) ==
    IF d.items # <<>>
    THEN [d |-> [d EXCEPT !.items = SubSeq(@, 1, Len(@) - 1)],
          reqs |-> <<[k |-> "detail", dev |-> d.items[Len(d.items)]]>>]
    ELSE IF d.urls # <<>>
    THEN [d |-> [d EXCEPT !.urls = Tail(@), !.phase = Head(d.urls)],
          reqs |-> <<[k |-> Head(d.urls), dev |-> 0]>>]
    ELSE [d |-> Finish(d, FALSE, stable), reqs |-> <<>>]
EachSeries(d, stable) ==
    IF d.items # <<>>
    THEN [d |-> [d EXCEPT !.items = Tail(@)],
          reqs |-> <<[k |-> "detail", dev |-> Head(d.items)]>>]
    ELSE IF d.urls # <<>>
    THEN [d |-> [d EXCEPT !.urls = Tail(@), !.phase = Head(d.urls)],
          reqs |-> <<[k |-> Head(d.urls), dev |-> 0]>>]
    ELSE [d |-> Finish(d, FALSE, stable), reqs |-> <<>>]

\* the callback of discoverAccessories for the listing it fetched
\* (and first, the same going on to the next listing after a failure)
discoverAccessoriesGoingOn(d, r, stable) ==
    EachSeries([d EXCEPT !.items = IF r.error THEN <<>> ELSE r.json], stable)
discoverAccessories(d, r, stable) ==
    IF r.error THEN [d |-> Finish(d, TRUE, stable), reqs |-> <<>>]
    ELSE EachSeries([d EXCEPT !.items = r.json], stable)

\* the callback of addAccessory for the detail document it fetched
\* (and first, the same handing the error to async.eachSeries, which then
\* leaves the remaining items and listings out)
addAccessoryStopping(d, r, deviceURL) ==
    IF r.error THEN [d EXCEPT !.items = <<>>, !.urls = <<>>]
    ELSE LET json == r.json
             variant == createAccessoryFromJSON(json)
             c == d.config
         IN  IF includeItemId(json["id"], c.hasInclude, c.includeIds,
                              c.hasExclude, c.excludeIds)
                /\ variant # "null"
             THEN LET accessory == IndigoAccessory(variant, deviceURL, json) IN
                  [d EXCEPT !.found = Append(@, accessory),
                            !.map = (IdString(json["id"]) :> accessory) @@ @]
             ELSE d
addAccessory(d, r, deviceURL) ==
    IF r.error THEN d
    ELSE LET json == r.json
             variant == createAccessoryFromJSON(json)
             c == d.config
         IN  IF includeItemId(json["id"], c.hasInclude, c.includeIds,
                              c.hasExclude, c.excludeIds)
                /\ variant # "null"
             THEN LET accessory == IndigoAccessory(variant, deviceURL, json) IN
                  [d EXCEPT !.found = Append(@, accessory),
                            !.map = (IdString(json["id"]) :> accessory) @@ @]
             ELSE d

\* the requests of a step of the discovery pass are handed to indigoRequest
DiscoveryRequests(reqs) ==
    /\ calls' = calls \o
          [j \in 1..Len(reqs) |->
              [method |-> "GET", acc |-> 0, dev |-> reqs[j].dev, qs |-> NoQs,
               k |-> reqs[j].k, op |-> 0]]
    /\ requestQueue' = requestQueue \o [j \in 1..Len(reqs) |-> Len(calls) + j]

\* IndigoPlatform.prototype.accessories is called
Accessories ==
    /\ discovery.phase = "new"
    /\ LET urls == IF discovery.config.includeActions
                   THEN <<"devices", "actions">> ELSE <<"devices">>
           run == EachSeries([discovery EXCEPT !.urls = urls], TRUE)
       IN  /\ discovery' = run.d
           /\ DiscoveryRequests(run.reqs)
           /\ last' = [NoLast("accessories") EXCEPT !.enq = Len(run.reqs)]
    /\ UNCHANGED <<remote, accessories, accessoryMap, workers, issued, ops,
                   timers, changes>>

\* a request of the discovery pass completes and its callback runs
DiscoveryRespond(c, outcome, stable) ==
    /\ c \in workers
    /\ outcome \in Outcomes("GET")
    /\ outcome # "ok" => discovery.failures < MaxFailures
    /\ LET call == calls[c]
           d0 == [discovery EXCEPT !.failures = IF outcome = "ok" THEN @ ELSE @ + 1]
           r == indigoRequestJSON(outcome,
                    IF call.k = "detail" THEN remote[call.dev]
                    ELSE discovery.listings[call.k])
           run == IF call.k = "detail"
                  THEN EachSeries(addAccessory(d0, r, call.dev), stable)
                  ELSE discoverAccessories(d0, r, stable)
       IN  /\ discovery' = run.d
           /\ (run.d.phase # "done" => stable)
           /\ DiscoveryRequests(run.reqs)
           /\ workers' = workers \ {c}
           /\ last' = [NoLast(IF call.k = "detail" THEN "detail" ELSE "listing")
                          EXCEPT !.call = c, !.outcome = outcome,
                                 !.enq = Len(run.reqs), !.before = discovery,
                                 !.json = r.json]
    /\ UNCHANGED <<remote, accessories, accessoryMap, issued, ops, timers, changes>>

DiscoveryNext ==
    \/ Accessories
    \/ Process
    \/ \E c \in workers, outcome \in {"ok", "error", "garbage"}, stable \in BOOLEAN :
          DiscoveryRespond(c, outcome, stable)

DiscoverySpec == DiscoveryInit /\ [][DiscoveryNext]_vars

\* the discovery pass when Homebridge calls accessories(), the queue starts
\* every request pushed to it, and every request started completes: none
\* stays in flight for good
DiscoveryLiveSpec ==
    /\ DiscoveryInit /\ [][DiscoveryNext]_vars
    /\ WF_vars(Accessories) /\ WF_vars(Process)
    /\ []<>(workers = {})

-----------------------------------------------------------------------------
(* The text of a listing response: jsonFixer and JSON.parse *)

\* a body is the sequence of its characters
Digits == {"1", "2"}
MaxLead == 5
MaxItems == 3

\* String.prototype.indexOf for one character: the index, from 0, of its
\* first occurrence, or -1
indexOf(body, ch) ==
    IF \E i \in 1..Len(body) : body[i] = ch
    THEN (CHOOSE i \in 1..Len(body) :
             body[i] = ch /\ \A j \in 1..(i - 1) : body[j] # ch) - 1
    ELSE -1

\* String.prototype.substr(start, length) and substr(start)
substr(body, start, length) ==
    SubSeq(body, start + 1, IF start + length > Len(body) THEN Len(body)
                            ELSE start + length)
substrFrom(body, start) == SubSeq(body, start + 1, Len(body))

\* the jsonFixer discoverAccessories hands to indigoRequestJSON
\* (and first, one that leaves the body as it is)
jsonFixerNone(body) == body
jsonFixer(body) ==
    LET firstComma == indexOf(body, ",") IN
    IF firstComma > 0 /\ firstComma < 5
    THEN substr(body, 0, firstComma) \o substrFrom(body, firstComma + 1)
    ELSE body

\* JSON.parse, for texts made of arrays, objects, strings without escapes,
\* numbers written with the digits of Digits, and spaces: a parsed value is
\* a pair of its kind and its content, at is the position after it
Parsed(kind, content, at) == [ok |-> TRUE, value |-> <<kind, content>>, at |-> at]
Fail == [ok |-> FALSE, value |-> <<>>, at |-> 0]

RECURSIVE skip(_, _)
skip(b, i) == IF i <= Len(b) /\ b[i] = " " THEN skip(b, i + 1) ELSE i

RECURSIVE parseString(_, _, _)
parseString(b, i, acc) ==
    IF i > Len(b) THEN Fail
    ELSE IF b[i] = "\"" THEN Parsed("string", acc, i + 1)
    ELSE parseString(b, i + 1, Append(acc, b[i]))

RECURSIVE parseNumber(_, _, _)
parseNumber(b, i, acc) ==
    IF i <= Len(b) /\ b[i] \in Digits THEN parseNumber(b, i + 1, Append(acc, b[i]))
    ELSE Parsed("number", acc, i)

RECURSIVE parseValue(_, _)
RECURSIVE parseElements(_, _, _)
RECURSIVE parseMembers(_, _, _)

\* the elements of an array from position i, after the bracket or a comma
parseElements(b, i, acc) ==
    LET v == parseValue(b, i)
        j == skip(b, v.at)
    IN  IF ~v.ok \/ j > Len(b) THEN Fail
        ELSE IF b[j] = "," THEN parseElements(b, j + 1, Append(acc, v.value))
        ELSE IF b[j] = "]" THEN Parsed("array", Append(acc, v.value), j + 1)
        ELSE Fail

\* the members of an object from position i, after the brace or a comma
parseMembers(b, i, acc) ==
    LET k == skip(b, i)
        key == IF k <= Len(b) /\ b[k] = "\"" THEN parseString(b, k + 1, <<>>) ELSE Fail
        c == skip(b, key.at)
        v == IF key.ok /\ c <= Len(b) /\ b[c] = ":" THEN parseValue(b, c + 1) ELSE Fail
        j == skip(b, v.at)
    IN  IF ~v.ok \/ j > Len(b) THEN Fail
        ELSE IF b[j] = ","
        THEN parseMembers(b, j + 1, Append(acc, <<key.value, v.value>>))
        ELSE IF b[j] = "}"
        THEN Parsed("object", Append(acc, <<key.value, v.value>>), j + 1)
        ELSE Fail

parseValue(b, i) ==
    LET j == skip(b, i)
        n == skip(b, j + 1)
    IN  IF j > Len(b) THEN Fail
        ELSE IF b[j] = "[" THEN
            IF n <= Len(b) /\ b[n] = "]" THEN Parsed("array", <<>>, n + 1)
            ELSE parseElements(b, j + 1, <<>>)
        ELSE IF b[j] = "{" THEN
            IF n <= Len(b) /\ b[n] = "}" THEN Parsed("object", <<>>, n + 1)
            ELSE parseMembers(b, j + 1, <<>>)
        ELSE IF b[j] = "\"" THEN parseString(b, j + 1, <<>>)
        ELSE IF b[j] \in Digits THEN parseNumber(b, j, <<>>)
        ELSE Fail

\* JSON.parse(body): the value, or the exception
JSONparse(body) ==
    LET v == parseValue(body, 1) IN
    IF v.ok /\ skip(body, v.at) = Len(body) + 1
    THEN [error |-> FALSE, json |-> v.value]
    ELSE [error |-> TRUE, json |-> <<>>]

\* indigoRequestJSON with the jsonFixer: the body is repaired, then parsed
indigoRequestJSONFixed(body) == JSONparse(jsonFixer(body))

\* the texts of the items of a listing:  {}  1  12  {"a":1}  {",":1}
\* {"a":1,"b":2}
ItemTexts ==
    {<<"{", "}">>, <<"1">>, <<"1", "2">>,
     <<"{", "\"", "a", "\"", ":", "1", "}">>,
     <<"{", "\"", ",", "\"", ":", "1", "}">>,
     <<"{", "\"", "a", "\"", ":", "1", ",", "\"", "b", "\"", ":", "2", "}">>}

RECURSIVE Join(_)
Join(items) ==
    IF items = <<>> THEN <<>>
    ELSE IF Len(items) = 1 THEN items[1]
    ELSE items[1] \o <<",">> \o Join(Tail(items))

\* the bodies the server answers a listing request with: spaces, the
\* bracket, the stray comma or not, the items, the bracket
Bodies ==
    {[i \in 1..lead |-> " "] \o <<"[">> \o (IF stray THEN <<",">> ELSE <<>>)
        \o Join(items) \o <<"]">> :
        lead \in 0..MaxLead, stray \in BOOLEAN,
        items \in UNION {[1..n -> ItemTexts] : n \in 0..MaxItems}}

\* the request for a listing is in flight
ListingInit ==
    /\ discovery \in {[phase |-> "listing", body |-> body] : body \in Bodies}
    /\ remote = <<>>
    /\ accessories = <<>>
    /\ accessoryMap = <<>>
    /\ calls = <<>>
    /\ requestQueue = <<>>
    /\ workers = {}
    /\ issued = <<>>
    /\ ops = <<>>
    /\ timers = <<>>
    /\ changes = 0
    /\ last = NoLast("init")

\* the response arrives: the callback indigoRequestJSON hands to
\* indigoRequest repairs and parses the body
ListingRespond ==
    /\ discovery.phase = "listing"
    /\ discovery' = [phase |-> "parsed", body |-> discovery.body,
                     fixed |-> jsonFixer(discovery.body),
                     r |-> indigoRequestJSONFixed(discovery.body)]
    /\ last' = NoLast("listing")
    /\ UNCHANGED <<remote, accessories, accessoryMap, calls, requestQueue,
                   workers, issued, ops, timers, changes>>

ListingNext == ListingRespond

ListingSpec == ListingInit /\ [][ListingNext]_vars

-----------------------------------------------------------------------------
(* The claims *)

\* the last step was the completion of a status fetch made by k
Fetched(k) ==
    /\ last.kind = "respond"
    /\ calls[last.call].method = "GET"
    /\ calls[last.call].k \in k
FetchKinds == {"refresh", "get", "afterPut", "setTargetTemperature"}
FetchOk(k) == Fetched(k) /\ last.outcome = "ok"
FetchFailed(k) == Fetched(k) /\ last.outcome # "ok"
CallsOf(o) == {j \in 1..Len(calls) : calls[j].op = o}
Completed(j) == j \in Range(issued) /\ j \notin workers

\* C1: at every moment at most one request to the Indigo server is in
\* flight, whichever accessories, pushes and handlers the requests come from
C1_OneRequestInFlight == Cardinality(workers) <= 1

\* a request is in flight while a request of another accessory waits
C1_Witness ==
    \E c \in workers : \E j \in 1..Len(requestQueue) :
        calls[requestQueue[j]].acc # calls[c].acc

\* C2: requests are started in the order of the calls of indigoRequest, each
\* once: the n-th request started is the n-th call, and the calls not yet
\* started wait in the queue in call order, none missing
C2_IssuedInCallOrder ==
    /\ \A i \in 1..Len(issued) : issued[i] = i
    /\ requestQueue = [j \in 1..Len(requestQueue) |-> Len(issued) + j]
    /\ Len(issued) + Len(requestQueue) = Len(calls)

\* three requests of two accessories have been started, after two of them
\* waited in the queue together
C2_Witness ==
    /\ Len(issued) >= 3
    /\ calls[1].acc # calls[2].acc
    /\ calls[1].op # calls[2].op

\* C3: handling a push notification hands no PUT and no EXECUTE to
\* indigoRequest, whatever the class of the accessory and whichever
\* properties changed: the requests of a push are at most its one status GET
C3_PushNeverWrites ==
    /\ \A j \in 1..Len(calls) :
          (calls[j].op # 0 /\ ops[calls[j].op].kind = "push") => calls[j].method = "GET"
    /\ \A o \in 1..Len(ops) : ops[o].kind = "push" => Cardinality(CallsOf(o)) <= 1
    /\ Fetched({"refresh"}) => last.enq = 0

\* a push refresh has run an update function whose setValue reached a 'set'
\* listener of the accessory
C3_Witness ==
    /\ FetchOk({"refresh"})
    /\ \E i \in 1..Len(last.delivered) :
          /\ last.delivered[i].char \in accessories[last.acc].setListeners
          /\ last.delivered[i].context = REFRESH_CONTEXT

\* C4 (as claimed): a set of any writable trait invoked with the refresh
\* context hands no request to indigoRequest and calls back with success
C4_EchoSetNeverWrites ==
    (last.kind = "set" /\ ops[Len(ops)].context = REFRESH_CONTEXT)
        => /\ last.enq = 0
           /\ ops[Len(ops)].results = <<Result(FALSE, Undefined)>>

\* C5: a failed status fetch (transport error or a body that does not parse)
\* leaves the accessory as it was and runs no update function
C5_FailedFetchLeavesCache ==
    FetchFailed(FetchKinds)
        => /\ accessories[last.acc] = last.before
           /\ last.invoked = <<>>
           /\ last.mirrored = <<>>
           /\ last.delivered = <<>>

\* a push refresh got a body that does not parse while the device on the
\* server differs from the cache
C5_Witness ==
    /\ FetchFailed({"refresh"})
    /\ last.outcome = "garbage"
    /\ \E p \in DOMAIN remote[calls[last.call].dev] \ {"name"} :
          LooseNotEqual(remote[calls[last.call].dev][p], accessories[last.acc].props[p])

\* C6 (as claimed): after a successful status fetch the cache equals the
\* fetched snapshot: every property has the fetched value and a property
\* absent from the snapshot is not in the cache
C6_CacheEqualsSnapshot ==
    FetchOk(FetchKinds)
        => \A p \in PropNames \ {"name"} :
              accessories[last.acc].props[p] = Get(last.json, p)

\* C6 (amended): after a successful status fetch every property of the
\* snapshot other than name is cached with the fetched value, or with its
\* previous value when that compares equal (==) to the fetched one; name is
\* the configured prefix followed by the fetched name; a property absent
\* from the snapshot keeps its cached value
C6_CacheMergesSnapshot ==
    FetchOk(FetchKinds)
        => LET now == accessories[last.acc]
               json == last.json
           IN  /\ \A p \in PropNames \ {"name"} :
                     IF p \in DOMAIN json
                     THEN IF LooseNotEqual(json[p], last.before.props[p])
                          THEN now.props[p] = json[p]
                          ELSE now.props[p] = last.before.props[p]
                     ELSE now.props[p] = last.before.props[p]
               /\ now.name = IF "name" \in DOMAIN json
                             THEN accessoryNamePrefix \o StringOf(json["name"])
                             ELSE last.before.name

\* a successful fetch whose snapshot lacks a property the cache holds
C6_Witness ==
    /\ FetchOk(FetchKinds)
    /\ \E p \in PropNames \ DOMAIN last.json : last.before.props[p] # Undefined

\* C7: every push notification gets one answer: 404, and no request, for an
\* identifier that is not in accessoryMap; otherwise nothing until its status
\* fetch completes, then 200 if the fetch succeeded and 500 if it failed
C7_OneResponsePerPush ==
    /\ \A o \in 1..Len(ops) :
          ops[o].kind = "push" =>
             IF ops[o].key \notin DOMAIN accessoryMap
             THEN /\ CallsOf(o) = {}
                  /\ ops[o].results = <<Result(TRUE, JSNum(404))>>
             ELSE /\ Cardinality(CallsOf(o)) = 1
                  /\ \A j \in CallsOf(o) :
                        IF Completed(j)
                        THEN /\ Len(ops[o].results) = 1
                             /\ ops[o].results[1].value \in {JSNum(200), JSNum(500)}
                        ELSE ops[o].results = <<>>
    /\ Fetched({"refresh"}) =>
          ops[calls[last.call].op].results =
             <<Result(last.outcome # "ok",
                      JSNum(IF last.outcome = "ok" THEN 200 ELSE 500))>>

\* one push was answered 404 and the refresh of another has just failed
C7_Witness ==
    /\ FetchFailed({"refresh"})
    /\ \E o \in 1..Len(ops) : ops[o].results = <<Result(TRUE, JSNum(404))>>

\* C8 (as claimed): a push for a known accessory whose isOn goes from false
\* to true runs the update of isOn exactly once, hands every value to the
\* framework with the refresh context and enqueues no request, whatever the
\* class of the accessory
C8_OneMirroredUpdate ==
    (/\ FetchOk({"refresh"})
     /\ last.before.props["isOn"] = JSBool(FALSE)
     /\ Get(last.json, "isOn") = JSBool(TRUE))
        => /\ Cardinality({i \in 1..Len(last.mirrored) : last.mirrored[i][1] = "isOn"}) = 1
           /\ \A i \in 1..Len(last.delivered) :
                 last.delivered[i].context = REFRESH_CONTEXT
           /\ last.enq = 0

\* the classes that define update_isOn and update_brightness, as the claims
\* name them
C9_Mirrors(variant) ==
    CASE variant \in {"Switch", "Lock", "GarageDoor"} -> {"isOn"}
      [] variant \in {"Door", "Window", "WindowCovering", "Light"} -> {"isOn", "brightness"}
      [] OTHER -> {}

\* C9: in a push refresh the update function of a property runs once, with
\* the fetched value, for every property whose fetched value differs from
\* the cached one (as != compares them) and whose class has the function;
\* it runs for no other property, and the push is answered 200
C9_MirrorsChangedOnly ==
    FetchOk({"refresh"})
        => LET changed == {p \in DOMAIN last.json \ {"name"} :
                              LooseNotEqual(last.json[p], last.before.props[p])}
               wanted == changed \cap C9_Mirrors(last.before.variant)
           IN  /\ \A p \in wanted :
                     Cardinality({i \in 1..Len(last.mirrored) :
                                     last.mirrored[i] = <<p, last.json[p]>>}) = 1
               /\ \A i \in 1..Len(last.mirrored) : last.mirrored[i][1] \in wanted
               /\ Len(last.mirrored) = Cardinality(wanted)
               /\ ops[calls[last.call].op].results = <<Result(FALSE, JSNum(200))>>

\* a push refresh found isOn changed and brightness unchanged on an accessory
\* that has both update functions
C9_Witness ==
    /\ FetchOk({"refresh"})
    /\ last.mirrored = <<<<"isOn", JSBool(TRUE)>>>>
    /\ "brightness" \in DOMAIN last.json
    /\ "brightness" \in C9_Mirrors(last.before.variant)

\* the traits whose get reads the device on the server
RemoteBacked == GetChars \ {"PositionState", "ObstructionDetected"}

\* the capability flag a get of a trait asks for is set in the accessory
Supported(this, char) ==
    LET flag(k) == ToBoolean(this.props[k]) IN
    CASE char \in {"CurrentPosition", "TargetPosition"} ->
            flag("typeSupportsOnOff") \/ flag("typeSupportsDim")
      [] char = "Brightness" -> flag("typeSupportsDim")
      [] char = "RotationSpeed" -> flag("typeSupportsSpeedControl")
      [] char = "CurrentRelativeHumidity" -> flag("displayHumidityInRemoteUI")
      [] this.variant = "Thermostat" -> TRUE
      [] OTHER -> flag("typeSupportsOnOff")

\* the last step was a get of a remote-backed trait
GetOfRemoteBacked ==
    /\ last.kind = "get"
    /\ ops[Len(ops)].key \in RemoteBacked
    /\ accessories[last.acc].variant # "Action"

\* the accessory with a snapshot's values in its properties
WithMerge(obj, json) ==
    [obj EXCEPT !.props =
        [p \in PropNames |->
            IF p \in DOMAIN json \ {"name"} /\ LooseNotEqual(json[p], obj.props[p])
            THEN json[p] ELSE obj.props[p]]]

\* C11: a get of a remote-backed trait (one whose capability flag is set in
\* the accessory) hands exactly one GET of the device's resource to
\* indigoRequest and returns nothing before it completes; when the fetch
\* succeeds the get returns the value projected from the properties as that
\* fetch's snapshot has just updated them, and when the fetch fails the get
\* returns an error and no value, cached or other
C11_GetReadsThroughFetch ==
    /\ (GetOfRemoteBacked /\ Supported(accessories[last.acc], ops[Len(ops)].key)) =>
          /\ last.enq = 1
          /\ calls[Len(calls)].method = "GET"
          /\ calls[Len(calls)].dev = accessories[last.acc].deviceURL
          /\ calls[Len(calls)].op = Len(ops)
          /\ ops[Len(ops)].results = <<>>
    /\ FetchOk({"get"}) =>
          /\ ops[calls[last.call].op].results =
                <<Result(FALSE, GetProject(WithMerge(last.before, last.json),
                                           ops[calls[last.call].op].key))>>
          /\ last.enq = 0
    /\ FetchFailed({"get"}) =>
          /\ ops[calls[last.call].op].results = <<Result(TRUE, Undefined)>>
          /\ last.enq = 0

\* a get returned a value that differs from the one the properties gave
\* before its fetch
C11_Witness ==
    /\ FetchOk({"get"})
    /\ ops[calls[last.call].op].results # <<>>
    /\ ops[calls[last.call].op].results[1].value #
          GetProject(last.before, ops[calls[last.call].op].key)

\* a request of operation o is waiting or in flight
Pending(o) == \E j \in CallsOf(o) : ~Completed(j)

\* C12 (as claimed): every get or set calls back exactly once: never twice,
\* and once no request of it is waiting or in flight it has called back,
\* with an error if the accessory's flags do not support the trait
C12_CallbackExactlyOnce ==
    \A o \in 1..Len(ops) :
        ops[o].kind \in {"get", "set"} =>
            /\ Len(ops[o].results) <= 1
            /\ ~Pending(o) => Len(ops[o].results) = 1

\* the last step was the completion of the PUT of a set
PutDone ==
    /\ last.kind = "respond"
    /\ calls[last.call].method = "PUT"
    /\ ops[calls[last.call].op].kind = "set"

\* C13: a set made by a controller (not an echo) that passes validation hands
\* one PUT to indigoRequest (setTargetTemperature after the status fetch that
\* tells it which setpoint to write); when the PUT has succeeded, and only
\* then, one status GET of the same device follows, and the set reports its
\* result when that GET completes, not before; when the PUT fails the set
\* reports the error, no GET follows and the properties are unchanged
C13_WriteThenRefresh ==
    /\ \A o \in 1..Len(ops) :
          ops[o].kind = "set" =>
             /\ Cardinality({j \in CallsOf(o) : calls[j].method = "PUT"}) <= 1
             /\ Cardinality({j \in CallsOf(o) : calls[j].k = "afterPut"}) <= 1
             /\ \A j \in CallsOf(o) :
                   calls[j].k = "afterPut" =>
                      \E i \in CallsOf(o) :
                          /\ i < j /\ calls[i].method = "PUT"
                          /\ Completed(i)
             /\ (ops[o].context = HAP_CONTEXT /\ Pending(o)
                   /\ accessories[ops[o].acc].variant # "Action")
                   => ops[o].results = <<>>
    /\ (last.kind = "set" /\ ops[Len(ops)].context = HAP_CONTEXT
          /\ ops[Len(ops)].results = <<>>
          /\ ops[Len(ops)].key # "TargetTemperature") =>
             /\ last.enq = 1
             /\ calls[Len(calls)].method = "PUT"
             /\ calls[Len(calls)].dev = accessories[last.acc].deviceURL
    /\ (PutDone /\ last.outcome = "ok") =>
          /\ last.enq = 1
          /\ calls[Len(calls)].method = "GET"
          /\ calls[Len(calls)].k = "afterPut"
          /\ calls[Len(calls)].dev = calls[last.call].dev
          /\ calls[Len(calls)].op = calls[last.call].op
          /\ ops[calls[last.call].op].results = <<>>
    /\ (PutDone /\ last.outcome # "ok") =>
          /\ last.enq = 0
          /\ ops[calls[last.call].op].results = <<Result(TRUE, Undefined)>>
          /\ accessories[last.acc].props = last.before.props
    /\ Fetched({"afterPut"}) =>
          ops[calls[last.call].op].results =
             <<Result(last.outcome # "ok", Undefined)>>

\* the status fetch that follows a successful PUT has changed the properties
\* and the set has reported success
C13_Witness ==
    /\ FetchOk({"afterPut"})
    /\ accessories[last.acc].props # last.before.props
    /\ ops[calls[last.call].op].results = <<Result(FALSE, Undefined)>>

\* operation o is a write to the On characteristic of an action
ActionWrite(o) ==
    /\ o \in 1..Len(ops)
    /\ ops[o].kind = "set"
    /\ accessories[ops[o].acc].variant = "Action"

\* such a write of a true value by a controller
ActionOn(o) ==
    /\ ActionWrite(o)
    /\ ToBoolean(ops[o].value)
    /\ ops[o].context # REFRESH_CONTEXT

\* C19: a write of 'on' to an action by a controller hands exactly one
\* EXECUTE to indigoRequest and calls back with success at once; the outcome
\* of the EXECUTE, success or failure, changes nothing in what the write
\* reported; a write of 'off' and a write with the refresh context hand no
\* request to indigoRequest and call back with success
C19_ExecuteFireAndForget ==
    /\ \A o \in 1..Len(ops) :
          ActionWrite(o) =>
             /\ ops[o].results = <<Result(FALSE, Undefined)>>
             /\ Cardinality(CallsOf(o)) = IF ActionOn(o) THEN 1 ELSE 0
             /\ \A j \in CallsOf(o) :
                   /\ calls[j].method = "EXECUTE"
                   /\ calls[j].dev = accessories[ops[o].acc].deviceURL
    /\ (last.kind = "set" /\ ActionWrite(Len(ops))) =>
          last.enq = IF ActionOn(Len(ops)) THEN 1 ELSE 0
    /\ (last.kind = "respond" /\ calls[last.call].method = "EXECUTE") =>
          last.enq = 0

\* the EXECUTE of an action has failed and its write had reported success
C19_Witness ==
    /\ last.kind = "respond"
    /\ calls[last.call].method = "EXECUTE"
    /\ last.outcome = "error"
    /\ ActionOn(calls[last.call].op)
    /\ ops[calls[last.call].op].results = <<Result(FALSE, Undefined)>>

\* the deferred writes of operation o that have not run yet
TimersOf(o) == {i \in 1..Len(timers) : timers[i].op = o}

\* every write of 'on' to an action has one deferred write, pending or run,
\* no other write to an action has any, and the deferred write of an action
\* hands false with the refresh context to its On characteristic, without a
\* request
C20_OneEcho ==
    /\ \A o \in 1..Len(ops) :
          ActionWrite(o) =>
             ops[o].echoes + Cardinality(TimersOf(o)) = IF ActionOn(o) THEN 1 ELSE 0
    /\ (last.kind = "timer" /\ accessories[last.acc].variant = "Action") =>
          /\ last.delivered = <<[char |-> "On", value |-> JSBool(FALSE),
                                 context |-> REFRESH_CONTEXT]>>
          /\ last.enq = 0
          /\ accessories[last.acc].hk["On"] = JSBool(FALSE)

\* the deferred write of operation o has run
Echoed(o) == o \in 1..Len(ops) /\ ops[o].echoes = 1

\* C20: after a write of 'on' to an action by a controller the value false
\* is handed to the On characteristic with the refresh context, once and
\* only once, whether the EXECUTE succeeds, fails or is still waiting; that
\* write causes no EXECUTE and schedules no further timer
C20_OffEchoedOnce ==
    /\ []C20_OneEcho
    /\ \A o \in 1..MaxOps : ActionOn(o) ~> Echoed(o)

\* the deferred write of an action has run after its EXECUTE failed
C20_Witness ==
    /\ last.kind = "timer"
    /\ accessories[last.acc].variant = "Action"
    /\ \E o \in 1..Len(ops) :
          /\ ActionOn(o)
          /\ ops[o].echoes = 1
          /\ \E j \in CallsOf(o) : Completed(j)

-----------------------------------------------------------------------------
(* The claims about the discovery pass *)

\* the requests a pass makes when nothing stops it: each listing, followed
\* by the details of its items in the order of the listing
Target(k, dev) == <<k, dev>>
PlanOf(k) ==
    <<Target(k, 0)>> \o
    [i \in 1..Len(discovery.listings[k]) |-> Target("detail", discovery.listings[k][i])]
Plan ==
    PlanOf("devices") \o
    (IF discovery.config.includeActions THEN PlanOf("actions") ELSE <<>>)
Fetches == [j \in 1..Len(calls) |-> Target(calls[j].k, calls[j].dev)]

DetailDone == last.kind = "detail"
ListingDone == last.kind = "listing"

\* C14: when the detail fetch of an item fails, the item is skipped (nothing
\* is added for it) and the pass goes on: the next item of the listing is
\* fetched, or after the last item the next listing; as long as no listing
\* fails the requests are those of the plan, in order, all of them by the
\* time the pass returns
C14_ItemFailureSkipsItem ==
    /\ (DetailDone /\ last.outcome # "ok") =>
          /\ discovery.map = last.before.map
          /\ discovery.errors = last.before.errors
          /\ last.before.items # <<>> =>
                /\ last.enq = 1
                /\ Fetches[Len(calls)] = Target("detail", Head(last.before.items))
          /\ (last.before.items = <<>> /\ last.before.urls # <<>>) =>
                /\ last.enq = 1
                /\ Fetches[Len(calls)] = Target(Head(last.before.urls), 0)
    /\ (discovery.phase # "new" /\ discovery.errors = 0) =>
          /\ Len(Fetches) <= Len(Plan)
          /\ Fetches = SubSeq(Plan, 1, Len(Fetches))
          /\ discovery.phase = "done" => Len(Fetches) = Len(Plan)

\* the detail fetch of an item failed and a later item of the listing has
\* become an accessory, and so has an item of the following listing
C14_Witness ==
    /\ discovery.phase = "done"
    /\ discovery.failures = 1
    /\ discovery.errors = 0
    /\ "1" \notin DOMAIN discovery.map
    /\ {"2", "10"} \subseteq DOMAIN discovery.map

Included(id) ==
    /\ discovery.config.hasInclude => id \in discovery.config.includeIds
    /\ discovery.config.hasExclude => id \notin discovery.config.excludeIds

\* C16: an item becomes an accessory only if its identifier is in the include
\* list, when there is one, and is not in the exclude list, when there is
\* one; an identifier in both lists is left out
C16_IncludeExclude ==
    /\ \A id \in DOMAIN discovery.map : Included(id)
    /\ (DetailDone /\ last.outcome = "ok") =>
          LET id == IdString(last.json["id"]) IN
              /\ id \in DOMAIN discovery.map => Included(id)
              /\ ~Included(id) =>
                    /\ discovery.map = last.before.map
                    /\ id \notin DOMAIN discovery.map
    /\ discovery.phase = "done" =>
          \A i \in 1..Len(discovery.returned[1].value) :
              Included(IdString(discovery.returned[1].value[i].props["id"]))

\* the detail of an item whose identifier is in both lists was fetched and
\* the item left out, while an item of the include list alone was kept
C16_Witness ==
    /\ DetailDone /\ last.outcome = "ok"
    /\ discovery.config.hasInclude /\ discovery.config.hasExclude
    /\ IdString(last.json["id"]) \in
          discovery.config.includeIds \cap discovery.config.excludeIds
    /\ DOMAIN discovery.map = {"3"}

\* the class the claim gives an item, "none" when it is dropped
C17_Variant(json) ==
    LET flag(k) == ToBoolean(Get(json, k))
        id == IdString(json["id"])
        overrides == <<<<treatAsSwitchIds, "Switch">>, <<treatAsLockIds, "Lock">>,
                       <<treatAsDoorIds, "Door">>, <<treatAsGarageDoorIds, "GarageDoor">>,
                       <<treatAsWindowIds, "Window">>,
                       <<treatAsWindowCoveringIds, "WindowCovering">>>>
        listed == {i \in 1..Len(overrides) : id \in overrides[i][1]}
        first == CHOOSE i \in listed : \A j \in listed : i <= j
    IN  IF Get(json, "restParent") = JSStr("actions") THEN "Action"
        ELSE IF listed # {} /\ flag("typeSupportsOnOff") THEN overrides[first][2]
        ELSE IF flag("typeSupportsHVAC") THEN "Thermostat"
        ELSE IF flag("typeSupportsSpeedControl") THEN "Fan"
        ELSE IF flag("typeSupportsDim") \/ flag("typeSupportsOnOff") THEN "Light"
        ELSE "none"

\* C17: a kept item becomes one accessory, of the class the priority gives:
\* action for an item of the actions; else the first override (switch, lock,
\* door, garage door, window, window covering) that lists its identifier, if
\* the device supports on/off; else thermostat, fan, light by the
\* capabilities; an item with none of these becomes no accessory
C17_VariantPriority ==
    /\ (DetailDone /\ last.outcome = "ok" /\ Included(IdString(last.json["id"]))) =>
          LET id == IdString(last.json["id"])
              variant == C17_Variant(last.json)
          IN  IF variant = "none"
              THEN /\ discovery.map = last.before.map
                   /\ id \notin DOMAIN discovery.map
              ELSE /\ id \in DOMAIN discovery.map
                   /\ discovery.map[id].variant = variant
                   /\ DOMAIN discovery.map = DOMAIN last.before.map \cup {id}
                   /\ discovery.phase # "done" =>
                         discovery.found = Append(last.before.found, discovery.map[id])
    /\ \A id \in DOMAIN discovery.map :
          discovery.map[id].variant = C17_Variant(remote[discovery.map[id].deviceURL])

\* a pass has made a thermostat of a device listed as a switch that has no
\* on/off support, a switch of a device listed as switch and as lock, a fan
\* of a dimmable fan, and nothing of a device without capabilities
C17_Witness ==
    /\ discovery.phase = "done"
    /\ {"12", "13", "14", "10"} \subseteq DOMAIN discovery.map
    /\ "11" \notin DOMAIN discovery.map
    /\ discovery.map["12"].variant = "Thermostat"
    /\ discovery.map["13"].variant = "Fan"
    /\ discovery.map["14"].variant = "Switch"
    /\ discovery.map["10"].variant = "Action"

\* C18: the list a pass returns has at most 99 accessories, in non-decreasing
\* order of their names; the warning about the limit is logged once in a
\* pass that discovered more than 99 accessories and not at all otherwise
C18_TruncatedAndSorted ==
    /\ discovery.phase # "done" => discovery.warnings = 0
    /\ discovery.phase = "done" =>
          LET list == discovery.returned[1].value
              discovered == Cardinality(DOMAIN discovery.map)
          IN  /\ Len(list) <= 99
              /\ Len(list) = IF discovered > 99 THEN 99 ELSE discovered
              /\ \A i \in 1..(Len(list) - 1) :
                    NameRank(list[i].name) <= NameRank(list[i + 1].name)
              /\ discovery.warnings = IF discovered > 99 THEN 1 ELSE 0

\* a pass that discovered 101 accessories, whose names were not in order, has
\* returned
C18_Witness ==
    /\ discovery.phase = "done"
    /\ Cardinality(DOMAIN discovery.map) = 101
    /\ Len(discovery.returned[1].value) = 99
    /\ discovery.warnings = 1

-----------------------------------------------------------------------------
(* One fan, light or thermostat, written and read by a controller *)

\* the fan, the dimmable light and the thermostat
TraitDevices == {8, 9, 7}

\* the thermostat's document with its setpoints and at most one operating
\* mode selected
ThermostatDetail(heat, cool, mode) ==
    [p \in DOMAIN DeviceDetail(7) |->
        IF p \in ModeKeys THEN JSBool(p = mode)
        ELSE IF p = "setpointHeat" THEN JSNum(heat)
        ELSE IF p = "setpointCool" THEN JSNum(cool)
        ELSE DeviceDetail(7)[p]]

\* what the server holds for a device some time after its discovery: the
\* document as it was, or with a capability withdrawn, or, for the
\* thermostat, with other setpoints (in tenths of a degree of the server's
\* unit) and another operating mode
Later(d, inCelsius) ==
    CASE d = 8 -> {DeviceDetail(8),
                   [DeviceDetail(8) EXCEPT !["typeSupportsSpeedControl"] = JSBool(FALSE)]}
      [] d = 9 -> {DeviceDetail(9),
                   [DeviceDetail(9) EXCEPT !["typeSupportsDim"] = JSBool(FALSE)]}
      [] d = 7 -> {ThermostatDetail(IF inCelsius THEN 200 ELSE 681,
                                    IF inCelsius THEN 240 ELSE 760, mode) :
                      mode \in {"hvacOperationModeIsHeat", "hvacOperationModeIsCool",
                                "hvacOperationModeIsAuto",
                                "hvacOperationModeIsProgramHeat",
                                "hvacOperationModeIsProgramCool",
                                "hvacOperationModeIsProgramAuto", "none"}}

\* an installation of one accessory, with either setting of
\* thermostatsInCelsius when it is the thermostat
TraitInit ==
    \E d \in TraitDevices, inCelsius \in BOOLEAN :
        /\ d # 7 => inCelsius = thermostatsInCelsius
        /\ accessories =
              <<[IndigoAccessory(createAccessoryFromJSON(DeviceDetail(d)), d,
                                 DeviceDetail(d))
                    EXCEPT !.thermostatsInCelsius = inCelsius]>>
        /\ accessoryMap = (IdString(accessories[1].props["id"]) :> 1)
        /\ remote \in [{d} -> Later(d, inCelsius)]
        /\ calls = <<>>
        /\ requestQueue = <<>>
        /\ workers = {}
        /\ issued = <<>>
        /\ ops = <<>>
        /\ timers = <<>>
        /\ changes = 0
        /\ last = NoLast("init")
        /\ discovery = [phase |-> "done"]

\* the values a controller writes: percentages below, at and above the
\* limits of the handlers, the operating modes and one value that is none,
\* temperatures in tenths of a degree Celsius
TraitValues(char) ==
    CASE char = "On" -> {JSBool(TRUE)}
      [] char = "Brightness" -> {JSNum(-1), JSNum(0), JSNum(50), JSNum(100), JSNum(101)}
      [] char = "RotationSpeed" ->
            {JSNum(n) : n \in {-1, 0, 1, 999, 1000, 1998, 1999, 2000,
                               100 * SpeedUnit, 100 * SpeedUnit + 1}}
      [] char = "TargetHeatingCoolingState" ->
            {JSNum(HC_OFF), JSNum(HC_HEAT), JSNum(HC_COOL), JSNum(HC_AUTO), JSNum(4)}
      [] OTHER -> {JSNum(-74), JSNum(215), JSNum(221)}

TraitNext ==
    \/ \E char \in Chars : \E value \in TraitValues(char) :
          Set(1, char, value, HAP_CONTEXT)
    \/ \E char \in GetChars : GetOp(1, char)
    \/ Process
    \/ \E c \in workers, outcome \in {"ok", "error", "garbage"} : Respond(c, outcome)

TraitSpec == TraitInit /\ [][TraitNext]_vars

-----------------------------------------------------------------------------
(* The claims about the traits *)

\* the target characteristics whose write schedules a deferred setValue on
\* the current-state characteristic
MirroredTargets == {"LockTargetState", "TargetPosition", "TargetDoorState"}

\* operation o is a controller's write of a target characteristic that
\* issued the PUT and scheduled the follow-up
MirroredWrite(o) ==
    /\ ops[o].kind = "set"
    /\ accessories[ops[o].acc].variant # "Action"
    /\ ops[o].key \in MirroredTargets
    /\ ops[o].context # REFRESH_CONTEXT

\* the PUT of operation o has completed and succeeded: updateStatus has
\* gone on to fetch the status
PutSucceeded(o) == \E j \in CallsOf(o) : calls[j].k = "afterPut"

\* C21 (as claimed): the deferred follow-up of a position, lock or
\* garage-door write has run only if the PUT of that write has succeeded
C21_FollowUpAfterSuccess ==
    \A o \in 1..Len(ops) :
        MirroredWrite(o) /\ ops[o].echoes > 0 => PutSucceeded(o)

\* the last step was the completion of the status fetch of a write of the
\* target temperature
ModeRead == Fetched({"setTargetTemperature"})

\* the parameters of the PUT for native value t when the response says mode
ExpectedSetpoints(json, t, inCelsius) ==
    LET d == IF inCelsius THEN 20 ELSE 50 IN
    IF ToBoolean(Get(json, "hvacOperationModeIsHeat")) THEN "setpointHeat" :> JSNum(t)
    ELSE IF ToBoolean(Get(json, "hvacOperationModeIsCool")) THEN "setpointCool" :> JSNum(t)
    ELSE ("setpointCool" :> JSNum(t + d)) @@ ("setpointHeat" :> JSNum(t - d))

\* C22: a write of the target temperature T (native value t) issues one PUT,
\* when the status fetch that reads the mode has succeeded, and never more
\* than one; its parameters are the heat setpoint t alone in heat mode, the
\* cool setpoint t alone in cool mode, and otherwise both, cool t + d and
\* heat t - d, d being 5 degrees Fahrenheit or 2 degrees Celsius
C22_SetpointsByMode ==
    /\ \A o \in 1..Len(ops) :
          (ops[o].kind = "set" /\ ops[o].key = "TargetTemperature") =>
             Cardinality({j \in CallsOf(o) : calls[j].method = "PUT"}) <= 1
    /\ (ModeRead /\ last.outcome = "ok") =>
          /\ last.enq = 1
          /\ calls[Len(calls)].method = "PUT"
          /\ calls[Len(calls)].op = calls[last.call].op
          /\ calls[Len(calls)].qs =
                ExpectedSetpoints(last.json,
                    celsiusToIndigoTemp(accessories[last.acc],
                                        ops[calls[last.call].op].value[2]),
                    accessories[last.acc].thermostatsInCelsius)
    /\ (ModeRead /\ last.outcome # "ok") => last.enq = 0

\* the mode read is neither heat nor cool on a server counting in Celsius
\* and both setpoints are written, 2 degrees apart from 21.5
C22_Witness ==
    /\ ModeRead /\ last.outcome = "ok"
    /\ accessories[last.acc].thermostatsInCelsius
    /\ calls[Len(calls)].qs =
          ("setpointCool" :> JSNum(235)) @@ ("setpointHeat" :> JSNum(195))

\* the last step was the completion of the status fetch of a read of char
ReadDone(char) ==
    /\ FetchOk({"get"})
    /\ ops[calls[last.call].op].key = char

\* the Celsius value, in tenths and rounded to a tenth, of half of n2 tenths
\* of a degree of the server's unit
HalfInCelsius(n2, inCelsius) ==
    IF inCelsius THEN n2 \div 2 ELSE RoundTenths((n2 - 640) * 5, 180)

\* C23: a read of the target temperature hands over, in Celsius, the heat
\* setpoint when the status just fetched says heat mode, the cool setpoint
\* when it says cool mode, and otherwise the midpoint of the two setpoints
C23_TargetByMode ==
    ReadDone("TargetTemperature") =>
        LET json == last.json
            inCelsius == accessories[last.acc].thermostatsInCelsius
            heat == json["setpointHeat"][2]
            cool == json["setpointCool"][2]
        IN  ops[calls[last.call].op].results =
              <<Result(FALSE,
                  JSNum(IF ToBoolean(json["hvacOperationModeIsHeat"])
                           \/ ToBoolean(json["hvacOperationModeIsProgramHeat"])
                        THEN HalfInCelsius(2 * heat, inCelsius)
                        ELSE IF ToBoolean(json["hvacOperationModeIsCool"])
                           \/ ToBoolean(json["hvacOperationModeIsProgramCool"])
                        THEN HalfInCelsius(2 * cool, inCelsius)
                        ELSE HalfInCelsius(heat + cool, inCelsius)))>>

\* with setpoints 68.1 and 76 degrees Fahrenheit and neither heat nor cool
\* mode the read hands over 22.3 degrees Celsius
C23_Witness ==
    /\ ReadDone("TargetTemperature")
    /\ ~accessories[last.acc].thermostatsInCelsius
    /\ ~ToBoolean(last.json["hvacOperationModeIsHeat"])
    /\ ~ToBoolean(last.json["hvacOperationModeIsCool"])
    /\ ~ToBoolean(last.json["hvacOperationModeIsProgramHeat"])
    /\ ~ToBoolean(last.json["hvacOperationModeIsProgramCool"])
    /\ ops[calls[last.call].op].results = <<Result(FALSE, JSNum(223))>>

\* the last step was a controller's write of char
Written(char) ==
    /\ last.kind = "set"
    /\ ops[Len(ops)].key = char

\* the last step handed one PUT with parameters qs to indigoRequest and has
\* not called back
OnePut(qs) ==
    /\ last.enq = 1
    /\ calls[Len(calls)].method = "PUT"
    /\ calls[Len(calls)].op = Len(ops)
    /\ calls[Len(calls)].qs = qs
    /\ ops[Len(ops)].results = <<>>

\* the last step called back with an error and handed no request to
\* indigoRequest
Rejected ==
    /\ last.enq = 0
    /\ ops[Len(ops)].results = <<Result(TRUE, Undefined)>>

\* the mode-select parameter of each target mode
ModeSelect ==
    (HC_OFF :> "hvacOperationModeIsOff") @@ (HC_HEAT :> "hvacOperationModeIsHeat")
    @@ (HC_COOL :> "hvacOperationModeIsCool") @@ (HC_AUTO :> "hvacOperationModeIsAuto")

\* C24: a write of the target mode OFF, HEAT, COOL or AUTO issues one PUT
\* whose only parameter is the mode-select parameter of that mode; a write
\* of any other value calls back with an error and issues no request
C24_OneModeSelect ==
    Written("TargetHeatingCoolingState") =>
        LET mode == ops[Len(ops)].value[2] IN
        IF mode \in DOMAIN ModeSelect
        THEN OnePut(ModeSelect[mode] :> JSStr("true"))
        ELSE Rejected

\* a write of a value that is no mode has been rejected and a write of COOL
\* has issued its PUT
C24_Witness ==
    /\ Written("TargetHeatingCoolingState")
    /\ Len(ops) = 2
    /\ ops[1].key = "TargetHeatingCoolingState" /\ ops[1].value = JSNum(4)
    /\ ops[1].results = <<Result(TRUE, Undefined)>>
    /\ ops[2].value = JSNum(HC_COOL)
    /\ calls[Len(calls)].qs = ("hvacOperationModeIsCool" :> JSStr("true"))

\* a percentage with one decimal, counted in thirtieths of a percent
Percent(tenths) == 3 * tenths

\* the level of a fan speed p
Level(p) ==
    IF p > Percent(666) THEN 3
    ELSE IF p > Percent(333) THEN 2
    ELSE IF p > 0 THEN 1 ELSE 0

\* C25: a write of a fan speed p between 0 and 100 to an accessory whose
\* device supports speed control issues one PUT with level 3 if p > 66.6,
\* 2 if p > 33.3, 1 if p > 0 and 0 otherwise; a write of a value out of
\* 0..100, or to a device without speed control, calls back with an error
\* and issues no request
C25_SpeedLevels ==
    Written("RotationSpeed") =>
        LET p == ops[Len(ops)].value[2] IN
        IF ToBoolean(accessories[last.acc].props["typeSupportsSpeedControl"])
           /\ p >= 0 /\ p <= Percent(1000)
        THEN OnePut("speedIndex" :> JSNum(Level(p)))
        ELSE Rejected

\* a write of a speed between 66.6 and two thirds of 100 has issued a PUT
\* with level 3
C25_Witness ==
    /\ Written("RotationSpeed")
    /\ ops[Len(ops)].value = JSNum(1999)
    /\ calls[Len(calls)].qs = ("speedIndex" :> JSNum(3))

\* the four speeds a read can hand over: level / 3 * 100 for each level
Buckets == {(level * Percent(1000)) \div 3 : level \in 0..3}

\* the last step completed a read of char that followed a write of it whose
\* PUT the server had applied
WrittenThenRead(char) ==
    /\ ReadDone(char)
    /\ calls[last.call].op = 2
    /\ ops[1].kind = "set" /\ ops[1].key = char
    /\ PutSucceeded(1)

\* C26: for every fan speed p in 0..100, a write of p followed by a read of
\* the rotation speed hands over one of four values, level / 3 * 100 for the
\* level written, and hands over p only when p is one of these four
C26_FourBuckets ==
    WrittenThenRead("RotationSpeed") =>
        LET p == ops[1].value[2]
            r == ops[2].results[1].value
        IN  /\ ops[2].results = <<Result(FALSE, r)>>
            /\ r[1] = "number"
            /\ r[2] \in Buckets
            /\ r[2] = (Level(p) * Percent(1000)) \div 3
            /\ r[2] = p => p \in Buckets

\* a third of 100 was written and two thirds of 100 are read
C26_Witness ==
    /\ WrittenThenRead("RotationSpeed")
    /\ ops[1].value = JSNum(1000)
    /\ ops[2].results = <<Result(FALSE, JSNum(2000))>>

\* the setpoint characteristics, written through celsiusToIndigoTemp and
\* read through indigoTempToCelsius
Thresholds == {"HeatingThresholdTemperature", "CoolingThresholdTemperature"}

\* the temperatures from -40 to 100 degrees Celsius, in tenths
TempRange == -400..1000

\* C27: a temperature t (HomeKit counts in tenths of a degree Celsius)
\* converted to the server's unit by a write and back by a read is within
\* 0.1 of t when the server counts in Fahrenheit, and is t when the server
\* counts in Celsius; so is every temperature of TempRange converted by
\* the accessory that made the write and the read
C27_TemperatureRoundTrip ==
    \A char \in Thresholds :
        WrittenThenRead(char) =>
            LET t == ops[1].value[2]
                r == ops[2].results[1].value
            IN  /\ ops[2].results = <<Result(FALSE, r)>>
                /\ r[1] = "number"
                /\ r[2] - t \in -1..1
                /\ accessories[last.acc].thermostatsInCelsius => r[2] = t
                /\ r[2] = indigoTempToCelsius(accessories[last.acc],
                              celsiusToIndigoTemp(accessories[last.acc], t))
                /\ \A u \in TempRange :
                      LET back == indigoTempToCelsius(accessories[last.acc],
                                     celsiusToIndigoTemp(accessories[last.acc], u))
                      IN  /\ back - u \in -1..1
                          /\ accessories[last.acc].thermostatsInCelsius => back = u

\* 22.1 degrees Celsius were written as 71.8 degrees Fahrenheit and are read
\* as 22.1 degrees Celsius
C27_Witness ==
    /\ WrittenThenRead("HeatingThresholdTemperature")
    /\ ~accessories[last.acc].thermostatsInCelsius
    /\ ops[1].value = JSNum(221)
    /\ last.json["setpointHeat"] = JSNum(718)
    /\ ops[2].results = <<Result(FALSE, JSNum(221))>>

\* C28: a controller's write of a brightness issues one PUT, carrying that
\* brightness, when the accessory's device supports dimming and the value
\* is within 0..100, and only then; otherwise it calls back with an error
\* and issues no request
C28_BrightnessGuard ==
    (Written("Brightness") /\ ops[Len(ops)].context # REFRESH_CONTEXT) =>
        LET brightness == ops[Len(ops)].value IN
        IF ToBoolean(accessories[last.acc].props["typeSupportsDim"])
           /\ brightness[2] >= 0 /\ brightness[2] <= 100
        THEN OnePut("brightness" :> brightness)
        ELSE Rejected

\* a write of 50 has been rejected: a read had fetched the status of the
\* device, which no longer supports dimming
C28_Witness ==
    /\ Written("Brightness")
    /\ Len(ops) = 2
    /\ ops[1].kind = "get"
    /\ ops[2].value = JSNum(50)
    /\ ~ToBoolean(accessories[last.acc].props["typeSupportsDim"])
    /\ Rejected

-----------------------------------------------------------------------------
(* The claims about the text of a listing response *)

\* the index, from 0, of the opening bracket of a body whose first character
\* other than a space is the bracket, followed at once by a comma
StrayAt(body) ==
    LET open == skip(body, 1) IN
    IF open + 1 <= Len(body) /\ body[open] = "[" /\ body[open + 1] = ","
    THEN open - 1 ELSE -1

\* the body without the character after the opening bracket
WithoutStray(body) ==
    substr(body, 0, StrayAt(body) + 1) \o substrFrom(body, StrayAt(body) + 2)

\* the only defect of the body is a comma right after the opening bracket:
\* without it the body parses as an array
OnlyStrayComma(body) ==
    /\ StrayAt(body) >= 0
    /\ ~JSONparse(WithoutStray(body)).error
    /\ JSONparse(WithoutStray(body)).json[1] = "array"

\* C29 (as claimed): a listing response whose only defect is a stray comma
\* right after the opening bracket is parsed to the item list of the same
\* response without that comma
C29_StrayCommaRepaired ==
    (discovery.phase = "parsed" /\ OnlyStrayComma(discovery.body)) =>
        discovery.r = JSONparse(WithoutStray(discovery.body))

\* C29 (amended): it is, when the comma is among the first five characters
\* of the body, that is when at most three characters precede the bracket
C29_StrayCommaRepairedNearStart ==
    (discovery.phase = "parsed" /\ OnlyStrayComma(discovery.body)
        /\ StrayAt(discovery.body) < 4) =>
        discovery.r = JSONparse(WithoutStray(discovery.body))

\* three spaces, the bracket, the stray comma and two items: the two items
\* are parsed
C29_Witness ==
    /\ discovery.phase = "parsed"
    /\ OnlyStrayComma(discovery.body)
    /\ StrayAt(discovery.body) = 3
    /\ ~discovery.r.error
    /\ Len(discovery.r.json[2]) = 2

\* C30 (as claimed): a body that parses as a JSON array without repair is
\* left as it is by the repair
C30_WellFormedUnchanged ==
    (discovery.phase = "parsed" /\ ~JSONparse(discovery.body).error
        /\ JSONparse(discovery.body).json[1] = "array") =>
        discovery.fixed = discovery.body

-----------------------------------------------------------------------------
(* The claims about the accessory over its life *)

\* the capability flags of a device
CapabilityFlags == {"typeSupportsDim", "typeSupportsHVAC", "typeSupportsOnOff",
                    "typeSupportsSpeedControl"}

\* C31 (as claimed): the identifier, the resource path and the capability
\* flags of an accessory are those its constructor was given
C31_ConstructedForGood ==
    \A i \in 1..Len(accessories) :
        LET made == IndigoAccessory(accessories[i].variant, accessories[i].deviceURL,
                                    DeviceDetail(accessories[i].deviceURL))
        IN  /\ accessoryMap[IdString(made.props["id"])] = i
            /\ \A p \in CapabilityFlags \cup {"id"} :
                   accessories[i].props[p] = made.props[p]

\* the requests an operation hands to indigoRequest: at most GET, PUT, GET
MaxCalls == 3 * MaxOps

\* C32: when every request in flight completes, every request handed to
\* indigoRequest is issued and completes, once; a request is issued only
\* when none is in flight, so one that does not complete keeps the later
\* ones waiting
C32_EveryRequestServed ==
    /\ \A j \in 1..MaxCalls : (j \in 1..Len(calls)) ~> Completed(j)
    /\ [](\A m, n \in 1..Len(issued) : issued[m] = issued[n] => m = n)
    /\ [][/\ issued' # issued => workers = {}
          /\ workers' \ workers # {} => issued' # issued]_vars

\* two requests were handed to indigoRequest and both have completed
C32_Witness ==
    /\ Len(calls) >= 2
    /\ \A j \in 1..Len(calls) : Completed(j)

-----------------------------------------------------------------------------
(* The claims about the result of the discovery pass *)

\* the identifiers of the accessories of a list
IdsOf(list) == {IdString(list[i].props["id"]) : i \in 1..Len(list)}

\* the identifiers of the discovered accessories in discovery order: the
\* devices listing, then the actions listing, each in listing order
DiscoveryOrder ==
    SelectSeq([i \in 1..Len(Plan) |-> ToString(Plan[i][2])],
              LAMBDA id : id \in DOMAIN discovery.map)

\* C33: when a pass has discovered more than 99 accessories, the 99 it
\* returns are the first 99 in discovery order, whatever their names
C33_FirstDiscoveredKept ==
    (discovery.phase = "done" /\ Len(DiscoveryOrder) > 99) =>
        /\ Len(discovery.returned[1].value) = 99
        /\ IdsOf(discovery.returned[1].value) = Range(SubSeq(DiscoveryOrder, 1, 99))

\* of 101 discovered devices the last two are left out, one of them named
\* Desk, and accessories named Lamp are returned
C33_Witness ==
    /\ discovery.phase = "done"
    /\ Len(DiscoveryOrder) = 101
    /\ discovery.map["114"].name = accessoryNamePrefix \o "Desk"
    /\ "114" \notin IdsOf(discovery.returned[1].value)
    /\ \E i \in 1..99 :
          discovery.returned[1].value[i].name = accessoryNamePrefix \o "Lamp"

\* C34 (as claimed): after a pass, the identifiers of the push listener's
\* lookup table are those of the accessories returned to the caller, so a
\* push for any other identifier, one left out by the limit of 99
\* included, is answered 404
C34_TableIsReturnedList ==
    discovery.phase = "done" =>
        DOMAIN discovery.map = IdsOf(discovery.returned[1].value)

-----------------------------------------------------------------------------
(* The claims about pushes, reads and writes together *)

\* the last step completed, with success, the status fetch of the first push
\* for an accessory no controller has written to
FirstPushHandled ==
    /\ FetchOk({"refresh"})
    /\ \A o \in 1..Len(ops) : o # calls[last.call].op => ops[o].kind = "get"

\* C35 (as claimed): when a property that has a mirror function has changed
\* on the server since the accessory was made, a push for the device that
\* is handled with success mirrors the new value to the framework, also
\* when a get has fetched the new value in between
C35_PushMirrorsChange ==
    FirstPushHandled =>
        \A p \in DOMAIN last.json :
            (/\ HasUpdateFunction(last.before.variant, p)
             /\ LooseNotEqual(last.json[p], Get(DeviceDetail(calls[last.call].dev), p)))
            => \E i \in 1..Len(last.mirrored) : last.mirrored[i] = <<p, last.json[p]>>

\* the target and the current characteristic of the classes that have both
Sides(variant) ==
    CASE variant = "Lock" -> <<"LockTargetState", "LockCurrentState">>
      [] variant = "GarageDoor" -> <<"TargetDoorState", "CurrentDoorState">>
      [] IsPosition(variant) -> <<"TargetPosition", "CurrentPosition">>
      [] OTHER -> <<>>

\* no request is waiting or in flight and no timer is pending
Quiet == requestQueue = <<>> /\ workers = {} /\ timers = <<>>

\* C36 (as claimed): after any writes of a controller, pushes and timers,
\* when no request is waiting or in flight and no timer is pending, the
\* framework holds the same value for the current state and for the target
\* state of a lock, a garage door and a position accessory
C36_SidesAgreeWhenQuiet ==
    (Quiet /\ \A o \in 1..Len(ops) : ops[o].kind # "get"
                                       /\ ops[o].context # REFRESH_CONTEXT) =>
        \A i \in 1..Len(accessories) :
            Sides(accessories[i].variant) # <<>> =>
                accessories[i].hk[Sides(accessories[i].variant)[1]]
                   = accessories[i].hk[Sides(accessories[i].variant)[2]]

\* C37: the server stores the setpoints it is sent; a write of the target
\* temperature t whose PUT succeeded, followed by a read of the target
\* temperature, hands over t to within 0.1 degrees, whatever the operating
\* mode of the thermostat
C37_TargetTemperatureRoundTrip ==
    WrittenThenRead("TargetTemperature") =>
        LET t == ops[1].value[2]
            r == ops[2].results[1].value
        IN  /\ ops[2].results = <<Result(FALSE, r)>>
            /\ r[1] = "number"
            /\ r[2] - t \in -1..1

\* the writes of the target temperature
TargetWrites ==
    {o \in 1..Len(ops) : ops[o].kind = "set" /\ ops[o].key = "TargetTemperature"}

\* the methods of the requests operation o has made, in the order it made
\* them
NthCall(o, n) ==
    CHOOSE j \in CallsOf(o) : Cardinality({i \in CallsOf(o) : i < j}) = n - 1
Requests(o) == [n \in 1..Cardinality(CallsOf(o)) |-> calls[NthCall(o, n)].method]

\* C38: a write of the target temperature makes a GET first; when that
\* GET fails the write is called back with the error, once, and makes no
\* PUT; when it succeeds the write makes a PUT next, and after a PUT that
\* succeeded a second GET, each request made when the one before it has
\* completed: the requests of a write that succeeded are GET, PUT, GET
C38_FetchPutFetch ==
    /\ \A o \in TargetWrites :
          /\ Requests(o) \in {<<"GET">>, <<"GET", "PUT">>, <<"GET", "PUT", "GET">>}
          /\ \A n \in 2..Len(Requests(o)) : Completed(NthCall(o, n - 1))
          /\ Len(ops[o].results) <= 1
          /\ (Completed(NthCall(o, 1)) /\ Requests(o) = <<"GET">>)
                 <=> (ops[o].results = <<Result(TRUE, Undefined)>>
                        /\ Len(Requests(o)) = 1)
          /\ (ops[o].results # <<>> /\ ~ops[o].results[1].err)
                 => (Requests(o) = <<"GET", "PUT", "GET">>
                       /\ \A j \in CallsOf(o) : Completed(j))
    /\ (ModeRead /\ last.outcome # "ok") =>
          /\ ops[calls[last.call].op].results = <<Result(TRUE, Undefined)>>
          /\ Requests(calls[last.call].op) = <<"GET">>
          /\ last.enq = 0
    /\ (ModeRead /\ last.outcome = "ok") =>
          /\ ops[calls[last.call].op].results = <<>>
          /\ Requests(calls[last.call].op) = <<"GET", "PUT">>
          /\ requestQueue[Len(requestQueue)] = NthCall(calls[last.call].op, 2)

\* a first write whose fetch failed was called back with the error after its
\* one GET, and a second write has made its GET, its PUT and its second
\* GET and was called back without an error
C38_Witness ==
    /\ TargetWrites = {1, 2}
    /\ Requests(1) = <<"GET">>
    /\ ops[1].results = <<Result(TRUE, Undefined)>>
    /\ Requests(2) = <<"GET", "PUT", "GET">>
    /\ ops[2].results = <<Result(FALSE, Undefined)>>

\* the requests of the pass are those of the plan so far, in its order, and
\* each was made when the one before it had completed; the caller's
\* callback has been invoked once when the pass is over and not before
OneAtATime ==
    /\ Len(requestQueue) + Cardinality(workers) <= 1
    /\ \A j \in 2..Len(calls) : Completed(j - 1)
InPlanOrder ==
    /\ Len(Fetches) <= Len(Plan)
    /\ Fetches = SubSeq(Plan, 1, Len(Fetches))
    /\ (discovery.phase = "done" /\ discovery.errors = 0) => Fetches = Plan
CalledBackOnce ==
    Len(discovery.returned) = IF discovery.phase = "done" THEN 1 ELSE 0

\* C39: when every request made completes, the discovery pass comes to an
\* end and stays there, with the caller's callback invoked exactly once,
\* whatever listings and details fail and whatever items are left out; the
\* listing of the devices is fetched first and the listing of the actions
\* after it only when includeActions is set; the details of the items of a
\* listing are fetched in the order of the listing, one request at a time
C39_PassTerminates ==
    /\ <>[](discovery.phase = "done")
    /\ [](OneAtATime /\ InPlanOrder /\ CalledBackOnce)

\* a pass over devices and actions, with items left out by the exclude list
\* and items of no supported kind, is over after the detail fetch of an
\* item failed, and the caller's callback has been invoked once
C39_Witness ==
    /\ discovery.phase = "done"
    /\ Len(discovery.returned) = 1
    /\ discovery.failures > 0
    /\ discovery.config.includeActions
    /\ discovery.config.hasExclude
    /\ Len(Fetches) = Len(Plan)
    /\ Len(discovery.returned[1].value) < Len(Plan) - 4
====
